---------------------------- MODULE Spec2Model ----------------------------
(***************************************************************************)
(* A model of CntxtPY: the knowledge-graph assembler of src/CntxtPY.py     *)
(* (class PythonCodeKnowledgeGraph), its command-line run, and the         *)
(* codebook compressor of src/compression/compression.py.                  *)
(*                                                                         *)
(* Python strings are sequences of one-character strings, so that          *)
(* concatenation, comparison and splitting are computed, not assumed.      *)
(* JSON values are tagged records of one shape.                            *)
(***************************************************************************)
EXTENDS Integers, Sequences, FiniteSets, TLC

VARIABLES
    dir,            \* the analysed directory: file name -> scanner output
    hashseed,       \* what PYTHONHASHSEED fixes for this process
    pc,             \* position of the command-line run
    pending,        \* files of the walk not yet visited
    order,          \* files in the order the walk visited them
    graph,          \* self.graph (networkx.DiGraph)
    stats,          \* self.stats and self.files_processed
    analyzed_files, \* self.analyzed_files
    todo,           \* add operations of _process_file_contents still to make
    call,           \* the add operation made by the last step
    ncalls,         \* add operations made by a caller of the assembler
    json_file,      \* python_code_knowledge_graph.json
    abbreviations,  \* compression.py: abbreviations
    compressed,     \* compressed_knowledge_graph.txt
    runs,           \* the complete runs made on the directory so far
    source,         \* the text handed to a scanner of regex_components
    scanned,        \* what the scanner returned for it
    cli             \* the command line run: its directory, output path, poll

vars == <<dir, hashseed, pc, pending, order, graph, stats, analyzed_files,
          todo, call, ncalls, json_file, abbreviations, compressed, runs,
          source, scanned, cli>>

---------------------------------------------------------------------------
(* Bounds *)

MaxHash == 1
MaxClock == 1
MaxNodes == 3
MaxLinks == 1
MaxCalls == 3
MaxParamLen == 5
MaxLines == 3

---------------------------------------------------------------------------
(* Python str: characters in code point order, comparison, str(int) *)

CharOrder ==
    << "\t", "\n", " ", "\"", "#", "'", "(", ")", ",", "-", ".",
       "0", "1", "2", "3", "4", "5", "6", "7", "8", "9",
       ":", ";", "=", ">", "@",
       "A", "B", "C", "D", "E", "F", "G", "H", "I", "J", "K", "L", "M",
       "N", "O", "P", "Q", "R", "S", "T", "U", "V", "W", "X", "Y", "Z",
       "[", "]", "_",
       "a", "b", "c", "d", "e", "f", "g", "h", "i", "j", "k", "l", "m",
       "n", "o", "p", "q", "r", "s", "t", "u", "v", "w", "x", "y", "z",
       "{", "|", "}" >>

Chars == {CharOrder[i] : i \in 1..Len(CharOrder)}

Ord == [c \in Chars |-> CHOOSE i \in 1..Len(CharOrder) : CharOrder[i] = c]

RECURSIVE StrLess(_, _)
StrLess(a, b) ==
    IF b = <<>> THEN FALSE
    ELSE IF a = <<>> THEN TRUE
    ELSE IF Head(a) = Head(b) THEN StrLess(Tail(a), Tail(b))
    ELSE Ord[Head(a)] < Ord[Head(b)]

Digits == <<"0", "1", "2", "3", "4", "5", "6", "7", "8", "9">>

RECURSIVE NatStr(_)
NatStr(n) ==
    IF n < 10 THEN <<Digits[n + 1]>>
    ELSE NatStr(n \div 10) \o <<Digits[(n % 10) + 1]>>

IntStr(n) == IF n < 0 THEN <<"-">> \o NatStr(-n) ELSE NatStr(n)

RECURSIVE Join(_, _)
Join(sep, parts) ==
    IF parts = <<>> THEN <<>>
    ELSE IF Len(parts) = 1 THEN parts[1]
    ELSE parts[1] \o sep \o Join(sep, Tail(parts))

RECURSIVE Flatten(_)
Flatten(parts) ==
    IF parts = <<>> THEN <<>> ELSE Head(parts) \o Flatten(Tail(parts))

Range(s) == {s[i] : i \in 1..Len(s)}

\* str.split(sep) for a separator of one character
RECURSIVE Split(_, _)
Split(text, sep) ==
    IF \E i \in 1..Len(text) : text[i] = sep
    THEN LET i == CHOOSE x \in 1..Len(text) :
                    /\ text[x] = sep
                    /\ \A y \in 1..(x - 1) : text[y] # sep
         IN  <<SubSeq(text, 1, i - 1)>>
                \o Split(SubSeq(text, i + 1, Len(text)), sep)
    ELSE <<text>>

\* str.strip(): without the leading and the trailing whitespace
Whitespace == {" ", "\n", "\t"}

RECURSIVE lstrip(_)
lstrip(s) ==
    IF s # <<>> /\ Head(s) \in Whitespace THEN lstrip(Tail(s)) ELSE s

RECURSIVE rstrip(_)
rstrip(s) ==
    IF s # <<>> /\ s[Len(s)] \in Whitespace
    THEN rstrip(SubSeq(s, 1, Len(s) - 1))
    ELSE s

strip(s) == lstrip(rstrip(s))

---------------------------------------------------------------------------
(* JSON values: str, int, null, list, dict (an ordered list of items).    *)
(* A list item has the empty key.                                         *)

JStr(s) == [t |-> "str", s |-> s, n |-> 0, items |-> <<>>]
JInt(n) == [t |-> "int", s |-> <<>>, n |-> n, items |-> <<>>]
JNull == [t |-> "null", s |-> <<>>, n |-> 0, items |-> <<>>]
JList(xs) == [t |-> "list", s |-> <<>>, n |-> 0, items |-> xs]
JDict(kvs) == [t |-> "dict", s |-> <<>>, n |-> 0, items |-> kvs]
Item(k, v) == [k |-> k, v |-> v]
Elem(v) == [k |-> <<>>, v |-> v]
StrList(ss) == JList([i \in 1..Len(ss) |-> Elem(JStr(ss[i]))])

\* str(value) of a scalar
PyStr(v) ==
    CASE v.t = "str" -> v.s
      [] v.t = "int" -> IntStr(v.n)
      [] OTHER -> <<"N", "o", "n", "e">>

HasKey(items, k) == \E i \in 1..Len(items) : items[i].k = k

Get(items, k) == items[CHOOSE i \in 1..Len(items) : items[i].k = k].v

\* dict[k] = v: an existing key keeps its place
Put(items, k, v) ==
    IF HasKey(items, k)
    THEN [i \in 1..Len(items) |->
            IF items[i].k = k THEN Item(k, v) ELSE items[i]]
    ELSE Append(items, Item(k, v))

RECURSIVE DictUpdate(_, _)
DictUpdate(items, new) ==
    IF new = <<>> THEN items
    ELSE DictUpdate(Put(items, Head(new).k, Head(new).v), Tail(new))

---------------------------------------------------------------------------
(* The string literals of src/CntxtPY.py *)

\* attribute names
Key ==
    [type |-> <<"t", "y", "p", "e">>,
     name |-> <<"n", "a", "m", "e">>,
     id |-> <<"i", "d">>,
     return_type |-> <<"r", "e", "t", "u", "r", "n", "_", "t", "y", "p",
             "e">>,
     parameters |-> <<"p", "a", "r", "a", "m", "e", "t", "e", "r", "s">>,
     decorators |-> <<"d", "e", "c", "o", "r", "a", "t", "o", "r", "s">>,
     default |-> <<"d", "e", "f", "a", "u", "l", "t">>,
     value |-> <<"v", "a", "l", "u", "e">>,
     type_hint |-> <<"t", "y", "p", "e", "_", "h", "i", "n", "t">>,
     comment_type |-> <<"c", "o", "m", "m", "e", "n", "t", "_", "t", "y",
             "p", "e">>,
     content |-> <<"c", "o", "n", "t", "e", "n", "t">>,
     line_number |-> <<"l", "i", "n", "e", "_", "n", "u", "m", "b", "e",
             "r">>,
     associated_element |-> <<"a", "s", "s", "o", "c", "i", "a", "t", "e",
             "d", "_", "e", "l", "e", "m", "e", "n", "t">>,
     tags |-> <<"t", "a", "g", "s">>,
     path |-> <<"p", "a", "t", "h">>,
     encoding |-> <<"e", "n", "c", "o", "d", "i", "n", "g">>,
     fileType |-> <<"f", "i", "l", "e", "T", "y", "p", "e">>,
     locale |-> <<"l", "o", "c", "a", "l", "e">>]

\* values of the type attribute
Type ==
    [file |-> <<"f", "i", "l", "e">>,
     class |-> <<"c", "l", "a", "s", "s">>,
     method |-> <<"m", "e", "t", "h", "o", "d">>,
     function |-> <<"f", "u", "n", "c", "t", "i", "o", "n">>,
     variable |-> <<"v", "a", "r", "i", "a", "b", "l", "e">>,
     import |-> <<"i", "m", "p", "o", "r", "t">>,
     decorator |-> <<"d", "e", "c", "o", "r", "a", "t", "o", "r">>,
     comment |-> <<"c", "o", "m", "m", "e", "n", "t">>,
     localization |-> <<"l", "o", "c", "a", "l", "i", "z", "a", "t", "i",
             "o", "n">>]

\* values of the relation attribute
Rel ==
    [DEFINES |-> <<"D", "E", "F", "I", "N", "E", "S">>,
     HAS_METHOD |-> <<"H", "A", "S", "_", "M", "E", "T", "H", "O", "D">>,
     IMPORTS |-> <<"I", "M", "P", "O", "R", "T", "S">>,
     DECORATED_WITH |-> <<"D", "E", "C", "O", "R", "A", "T", "E", "D",
             "_", "W", "I", "T", "H">>,
     HAS_VARIABLE |-> <<"H", "A", "S", "_", "V", "A", "R", "I", "A", "B",
             "L", "E">>,
     HAS_COMMENT |-> <<"H", "A", "S", "_", "C", "O", "M", "M", "E", "N",
             "T">>,
     USES |-> <<"U", "S", "E", "S">>,
     CONTAINS |-> <<"C", "O", "N", "T", "A", "I", "N", "S">>]

\* node id prefixes
Prefix ==
    [File |-> <<"F", "i", "l", "e", ":", " ">>,
     Class |-> <<"C", "l", "a", "s", "s", ":", " ">>,
     Method |-> <<"M", "e", "t", "h", "o", "d", ":", " ">>,
     Function |-> <<"F", "u", "n", "c", "t", "i", "o", "n", ":", " ">>,
     Variable |-> <<"V", "a", "r", "i", "a", "b", "l", "e", ":", " ">>,
     Import |-> <<"I", "m", "p", "o", "r", "t", ":", " ">>,
     Decorator |-> <<"D", "e", "c", "o", "r", "a", "t", "o", "r", ":",
             " ">>,
     Comment |-> <<"C", "o", "m", "m", "e", "n", "t", ":", " ">>,
     i18n |-> <<"i", "1", "8", "n", ":", " ">>]

\* other string literals
Lit ==
    [UTF8 |-> <<"U", "T", "F", "-", "8">>,
     SOURCE_CODE |-> <<"S", "O", "U", "R", "C", "E", "_", "C", "O", "D",
             "E">>,
     unknown_path |-> <<"u", "n", "k", "n", "o", "w", "n", "_", "p", "a",
             "t", "h">>,
     unknown_locale |-> <<"u", "n", "k", "n", "o", "w", "n", "_", "l",
             "o", "c", "a", "l", "e">>]

---------------------------------------------------------------------------
(* networkx.DiGraph as the program uses it: nodes in insertion order with  *)
(* an attribute dict each, and one attribute dict per (source, target).    *)

EmptyGraph == [nodes |-> <<>>, attr |-> <<>>, edges |-> <<>>]

has_node(G, n) == n \in Range(G.nodes)

NodeIndex(G, n) == CHOOSE i \in 1..Len(G.nodes) : G.nodes[i] = n

NodeAttr(G, n) == G.attr[NodeIndex(G, n)]

\* G.add_node(n, **attrs): a new node is appended; an existing node's
\* attribute dict is updated with attrs
add_node(G, n, attrs) ==
    IF has_node(G, n)
    THEN [G EXCEPT !.attr[NodeIndex(G, n)] = DictUpdate(@, attrs)]
    ELSE [G EXCEPT !.nodes = Append(@, n), !.attr = Append(@, attrs)]

has_edge(G, u, v) ==
    \E i \in 1..Len(G.edges) : G.edges[i].source = u /\ G.edges[i].target = v

\* G.add_edge(u, v, relation=r): absent endpoints are added without
\* attributes; the pair's attribute dict is updated
\* add_edge of a MultiDiGraph: every call adds an edge
add_edge_multi(G, u, v, r) ==
    LET G1 == IF has_node(G, u) THEN G ELSE add_node(G, u, <<>>)
        G2 == IF has_node(G1, v) THEN G1 ELSE add_node(G1, v, <<>>)
    IN  [G2 EXCEPT !.edges =
            Append(@, [source |-> u, target |-> v, relation |-> r])]

\* an add_edge that adds the edge and leaves the node set alone
add_edge_between_nodes_only(G, u, v, r) ==
    [G EXCEPT !.edges =
        Append(@, [source |-> u, target |-> v, relation |-> r])]

add_edge(G, u, v, r) ==
    LET G1 == IF has_node(G, u) THEN G ELSE add_node(G, u, <<>>)
        G2 == IF has_node(G1, v) THEN G1 ELSE add_node(G1, v, <<>>)
        e == [source |-> u, target |-> v, relation |-> r]
    IN  IF has_edge(G2, u, v)
        THEN [G2 EXCEPT !.edges =
                [i \in 1..Len(@) |->
                    IF @[i].source = u /\ @[i].target = v THEN e ELSE @[i]]]
        ELSE [G2 EXCEPT !.edges = Append(@, e)]

\* G[u][v]["relation"], <<>> where G has no edge (u, v)
Relation(G, u, v) ==
    IF has_edge(G, u, v)
    THEN G.edges[CHOOSE i \in 1..Len(G.edges) :
                    G.edges[i].source = u /\ G.edges[i].target = v].relation
    ELSE <<>>

NodeSet(G) == Range(G.nodes)

EdgeSet(G) == Range(G.edges)

---------------------------------------------------------------------------
(* PythonCodeKnowledgeGraph: the assembler state and its add operations.   *)
(* S is [graph, stats].                                                    *)

InitStats ==
    [ total_classes |-> 0, total_functions |-> 0, total_imports |-> 0,
      total_annotations |-> {}, files_with_errors |-> 0,
      total_comments |-> 0, total_variables |-> 0,
      total_localizations |-> 0, files_processed |-> 0 ]

InitState == [graph |-> EmptyGraph, stats |-> InitStats]

_add_import_node(S, file_node, import_name) ==
    LET import_node == Prefix.Import \o import_name
        S1 == IF ~has_node(S.graph, import_node)
              THEN [S EXCEPT
                      !.graph = add_node(@, import_node,
                          << Item(Key.type, JStr(Type.import)),
                             Item(Key.name, JStr(import_name)),
                             Item(Key.id, JStr(import_node)) >>),
                      !.stats.total_imports = @ + 1]
              ELSE S
    IN  [S1 EXCEPT !.graph = add_edge(@, file_node, import_node, Rel.IMPORTS)]

\* _add_class_node with the edge made only under the has_node guard
_add_class_node_edge_if_new(S, file_node, class_name) ==
    LET class_node == Prefix.Class \o class_name
    IN  IF ~has_node(S.graph, class_node)
        THEN [S EXCEPT
                !.graph = add_edge(
                    add_node(@, class_node,
                        << Item(Key.type, JStr(Type.class)),
                           Item(Key.name, JStr(class_name)),
                           Item(Key.id, JStr(class_node)) >>),
                    file_node, class_node, Rel.DEFINES),
                !.stats.total_classes = @ + 1]
        ELSE S

\* _add_class_node counting every call, not every new node
_add_class_node_counting_calls(S, file_node, class_name) ==
    LET class_node == Prefix.Class \o class_name
        S1 == IF ~has_node(S.graph, class_node)
              THEN [S EXCEPT
                      !.graph = add_node(@, class_node,
                          << Item(Key.type, JStr(Type.class)),
                             Item(Key.name, JStr(class_name)),
                             Item(Key.id, JStr(class_node)) >>)]
              ELSE S
    IN  [S1 EXCEPT
            !.graph = add_edge(@, file_node, class_node, Rel.DEFINES),
            !.stats.total_classes = @ + 1]

_add_class_node(S, file_node, class_name) ==
    LET class_node == Prefix.Class \o class_name
        S1 == IF ~has_node(S.graph, class_node)
              THEN [S EXCEPT
                      !.graph = add_node(@, class_node,
                          << Item(Key.type, JStr(Type.class)),
                             Item(Key.name, JStr(class_name)),
                             Item(Key.id, JStr(class_node)) >>),
                      !.stats.total_classes = @ + 1]
              ELSE S
    IN  [S1 EXCEPT !.graph = add_edge(@, file_node, class_node, Rel.DEFINES)]

\* the parameters and decorators of a FunctionInfo made JSON-serializable
Parameters(info) ==
    JList([i \in 1..Len(info.parameters) |->
        Elem(JDict(<< Item(Key.name, JStr(PyStr(info.parameters[i].name))),
                      Item(Key.type,
                           JStr(PyStr(info.parameters[i].type_hint))),
                      Item(Key.default,
                           info.parameters[i].default_value) >>))])

FunctionAttrs(type, node, info) ==
    << Item(Key.type, JStr(type)),
       Item(Key.name, JStr(info.name)),
       Item(Key.id, JStr(node)),
       Item(Key.return_type, JStr(PyStr(info.return_type))),
       Item(Key.parameters, Parameters(info)),
       Item(Key.decorators, StrList(info.decorators)) >>

\* _add_method_node without its has_node guard: the last method of a name
\* writes the attributes
_add_method_node_unguarded(S, class_name, method_info) ==
    LET method_node == Prefix.Method \o method_info.name
        class_node == Prefix.Class \o class_name
        S1 == [S EXCEPT
                 !.graph = add_node(@, method_node,
                     FunctionAttrs(Type.method, method_node, method_info)),
                 !.stats.total_functions = @ + 1]
    IN  IF has_node(S1.graph, class_node)
        THEN [S1 EXCEPT
                !.graph = add_edge(@, class_node, method_node, Rel.HAS_METHOD)]
        ELSE S1

\* _add_method_node with the edge added whether or not the class has a node
_add_method_node_always_linked(S, class_name, method_info) ==
    LET method_node == Prefix.Method \o method_info.name
        class_node == Prefix.Class \o class_name
        S1 == IF ~has_node(S.graph, method_node)
              THEN [S EXCEPT
                      !.graph = add_node(@, method_node,
                          FunctionAttrs(Type.method, method_node,
                                        method_info)),
                      !.stats.total_functions = @ + 1]
              ELSE S
    IN  [S1 EXCEPT
            !.graph = add_edge(@, class_node, method_node, Rel.HAS_METHOD)]

\* an _add_method_node that leaves total_functions to _add_function_node
_add_method_node_uncounted(S, class_name, method_info) ==
    LET method_node == Prefix.Method \o method_info.name
        class_node == Prefix.Class \o class_name
        S1 == IF ~has_node(S.graph, method_node)
              THEN [S EXCEPT
                      !.graph = add_node(@, method_node,
                          FunctionAttrs(Type.method, method_node,
                                        method_info))]
              ELSE S
    IN  IF has_node(S1.graph, class_node)
        THEN [S1 EXCEPT
                !.graph = add_edge(@, class_node, method_node, Rel.HAS_METHOD)]
        ELSE S1

_add_method_node(S, class_name, method_info) ==
    LET method_node == Prefix.Method \o method_info.name
        class_node == Prefix.Class \o class_name
        S1 == IF ~has_node(S.graph, method_node)
              THEN [S EXCEPT
                      !.graph = add_node(@, method_node,
                          FunctionAttrs(Type.method, method_node,
                                        method_info)),
                      !.stats.total_functions = @ + 1]
              ELSE S
    IN  IF has_node(S1.graph, class_node)
        THEN [S1 EXCEPT
                !.graph = add_edge(@, class_node, method_node, Rel.HAS_METHOD)]
        ELSE S1

\* _add_function_node without its has_node guard
_add_function_node_unguarded(S, file_node, function_info) ==
    LET function_node == Prefix.Function \o function_info.name
        S1 == [S EXCEPT
                 !.graph = add_node(@, function_node,
                     FunctionAttrs(Type.function, function_node,
                                   function_info)),
                 !.stats.total_functions = @ + 1]
    IN  [S1 EXCEPT
            !.graph = add_edge(@, file_node, function_node, Rel.DEFINES)]

_add_function_node(S, file_node, function_info) ==
    LET function_node == Prefix.Function \o function_info.name
        S1 == IF ~has_node(S.graph, function_node)
              THEN [S EXCEPT
                      !.graph = add_node(@, function_node,
                          FunctionAttrs(Type.function, function_node,
                                        function_info)),
                      !.stats.total_functions = @ + 1]
              ELSE S
    IN  [S1 EXCEPT
            !.graph = add_edge(@, file_node, function_node, Rel.DEFINES)]

_add_variable_node(S, file_node, variable_info) ==
    LET variable_node == Prefix.Variable \o variable_info.name
        type_hint == PyStr(variable_info.type_hint)
        S1 == IF ~has_node(S.graph, variable_node)
              THEN [S EXCEPT
                      !.graph = add_node(@, variable_node,
                          << Item(Key.type, JStr(Type.variable)),
                             Item(Key.name, JStr(variable_info.name)),
                             Item(Key.id, JStr(variable_node)),
                             Item(Key.value, variable_info.value),
                             Item(Key.type_hint, JStr(type_hint)) >>),
                      !.stats.total_variables = @ + 1]
              ELSE S
    IN  [S1 EXCEPT
            !.graph = add_edge(@, file_node, variable_node, Rel.HAS_VARIABLE)]

_add_annotation_node(S, file_node, annotation) ==
    LET annotation_node == Prefix.Decorator \o annotation
        S1 == IF ~has_node(S.graph, annotation_node)
              THEN [S EXCEPT
                      !.graph = add_node(@, annotation_node,
                          << Item(Key.type, JStr(Type.decorator)),
                             Item(Key.name, JStr(annotation)),
                             Item(Key.id, JStr(annotation_node)) >>),
                      !.stats.total_annotations = @ \cup {annotation}]
              ELSE S
    IN  [S1 EXCEPT
            !.graph = add_edge(@, file_node, annotation_node,
                               Rel.DECORATED_WITH)]

\* f"Comment: {line_number}_{comment_hash}", comment_hash = hash(content)
\* a comment id made of the content hash alone
CommentId_hash_only(h, comment) == Prefix.Comment \o IntStr(h[comment.content])

CommentId(h, comment) ==
    Prefix.Comment \o IntStr(comment.line_number) \o <<"_">>
        \o IntStr(h[comment.content])

_add_comment_node(S, h, file_node, comment) ==
    LET comment_node == CommentId(h, comment)
        S1 == IF ~has_node(S.graph, comment_node)
              THEN [S EXCEPT
                      !.graph = add_node(@, comment_node,
                          << Item(Key.type, JStr(Type.comment)),
                             Item(Key.comment_type, JInt(comment.type)),
                             Item(Key.content, JStr(comment.content)),
                             Item(Key.line_number, JInt(comment.line_number)),
                             Item(Key.associated_element,
                                  comment.associated_element),
                             Item(Key.tags, StrList(comment.tags)),
                             Item(Key.id, JStr(comment_node)) >>),
                      !.stats.total_comments = @ + 1]
              ELSE S
    IN  [S1 EXCEPT
            !.graph = add_edge(@, file_node, comment_node, Rel.HAS_COMMENT)]

\* os.path.basename
RECURSIVE basename(_)
basename(path) ==
    IF \E i \in 1..Len(path) : path[i] = "/"
    THEN basename(Tail(path))
    ELSE path

LocalizationAttrs(node, path, locale) ==
    << Item(Key.type, JStr(Type.localization)),
       Item(Key.path, JStr(path)),
       Item(Key.locale, JStr(locale)),
       Item(Key.id, JStr(node)) >>

\* localization is a dict
_add_localization_usage_node(S, file_node, localization) ==
    LET localization_path ==
            IF HasKey(localization, Key.path)
            THEN Get(localization, Key.path).s ELSE Lit.unknown_path
        locale ==
            IF HasKey(localization, Key.locale)
            THEN Get(localization, Key.locale).s ELSE Lit.unknown_locale
        localization_node == Prefix.i18n \o basename(localization_path)
        S1 == IF ~has_node(S.graph, localization_node)
              THEN [S EXCEPT
                      !.graph = add_node(@, localization_node,
                          LocalizationAttrs(localization_node,
                                            localization_path, locale)),
                      !.stats.total_localizations = @ + 1]
              ELSE S
    IN  [S1 EXCEPT
            !.graph = add_edge(@, file_node, localization_node, Rel.USES)]

\* LocalizationProcessor.extract_locale: a quoted xx_XX in the path; the
\* paths here have none
extract_locale(relative_path) == Lit.unknown_locale

_process_localization_file(S, relative_path) ==
    LET locale == extract_locale(relative_path)
        localization_node == Prefix.i18n \o basename(relative_path)
        S1 == IF ~has_node(S.graph, localization_node)
              THEN [S EXCEPT
                      !.graph = add_node(@, localization_node,
                          LocalizationAttrs(localization_node,
                                            relative_path, locale)),
                      !.stats.total_localizations = @ + 1]
              ELSE S
        file_node == Prefix.File \o relative_path
    IN  [S1 EXCEPT
            !.graph = add_edge(@, file_node, localization_node, Rel.CONTAINS)]

---------------------------------------------------------------------------
(* The analysed directory.  A Python file is given by what the scanners    *)
(* return for its text: DependencyMapper.extract_imports (in the order the *)
(* names enter the set), CodeIdentifierExtractor.extract_classes,          *)
(* extract_functions (which also returns the indented defs of a class      *)
(* body), extract_variables, and CommentProcessor.extract_comments.        *)

Parameter(name) ==
    [name |-> JStr(name), type_hint |-> JNull, default_value |-> JNull]

FunctionInfo(name, parameters) ==
    [name |-> name, parameters |-> parameters, return_type |-> JNull,
     decorators |-> <<>>]

ClassInfo(name, decorators, methods) ==
    [name |-> name, decorators |-> decorators, methods |-> methods]

VariableInfo(name, value) ==
    [name |-> name, type_hint |-> JNull, value |-> JStr(value)]

INLINE == 1

CommentInfo(content, line_number) ==
    [content |-> content, line_number |-> line_number, type |-> INLINE,
     associated_element |-> JNull, tags |-> <<>>]

Scan(imports, classes, functions, variables, comments) ==
    [imports |-> imports, classes |-> classes, functions |-> functions,
     variables |-> variables, comments |-> comments]

\* #a / import os / v = 1 / @d / class A: / def m(x): / pass / def f(x): / pass
K1 ==
    Scan(<< <<"o", "s">> >>,
         << ClassInfo(<<"A">>, << <<"d">> >>,
                      << FunctionInfo(<<"m">>, << Parameter(<<"x">>) >>) >>) >>,
         << FunctionInfo(<<"m">>, << Parameter(<<"x">>) >>),
            FunctionInfo(<<"f">>, << Parameter(<<"x">>) >>) >>,
         << VariableInfo(<<"v">>, <<"1">>) >>,
         << CommentInfo(<<"#", "a">>, 1) >>)

\* #a / import os, re / class A: / def n(y): / pass / def f(y): / pass / #b
K2 ==
    Scan(<< <<"o", "s">>, <<"r", "e">> >>,
         << ClassInfo(<<"A">>, <<>>,
                      << FunctionInfo(<<"n">>, << Parameter(<<"y">>) >>) >>) >>,
         << FunctionInfo(<<"n">>, << Parameter(<<"y">>) >>),
            FunctionInfo(<<"f">>, << Parameter(<<"y">>) >>) >>,
         <<>>,
         << CommentInfo(<<"#", "a">>, 1), CommentInfo(<<"#", "b">>, 8) >>)

\* #b / def f(x): / pass
K3 ==
    Scan(<<>>, <<>>,
         << FunctionInfo(<<"f">>, << Parameter(<<"x">>) >>) >>,
         <<>>,
         << CommentInfo(<<"#", "b">>, 1) >>)

Contents == {K1, K2, K3}

PyFiles == { <<"a", ".", "p", "y">>, <<"b", ".", "p", "y">> }

Directories == [PyFiles -> Contents]

CommentContents == { <<"#", "a">>, <<"#", "b">> }

\* What PYTHONHASHSEED fixes for one process: hash(s) of every str s, and
\* with it the order in which a set of str is iterated (rev: against the
\* order of insertion)
Seeds == [hash : [CommentContents -> 0..MaxHash], rev : BOOLEAN]

Reverse(s) == [i \in 1..Len(s) |-> s[Len(s) + 1 - i]]

SetIter(seed, s) == IF seed.rev THEN Reverse(s) ELSE s

---------------------------------------------------------------------------
(* _process_file_contents: the add operations it makes, in its order.     *)
(* extract_logs, extract_integrations, extract_version_constraints and    *)
(* extract_localizations find nothing in the texts K1..K3, so the calls   *)
(* that follow the comments in the source are not made for them.          *)

Op(op, a, b) == [op |-> op, a |-> a, b |-> b]

AnnotationCalls(file_node, decorators) ==
    [i \in 1..Len(decorators) |-> Op("annotation", file_node, decorators[i])]

MethodCalls(file_node, class_name, methods) ==
    Flatten([i \in 1..Len(methods) |->
        << Op("method", class_name, methods[i]) >>
            \o AnnotationCalls(file_node, methods[i].decorators)])

\* a per-file pass that upserts the methods of a class before the class
ClassCalls_methods_first(file_node, classes) ==
    Flatten([i \in 1..Len(classes) |->
        MethodCalls(file_node, classes[i].name, classes[i].methods)
            \o << Op("class", file_node, classes[i].name) >>
            \o AnnotationCalls(file_node, classes[i].decorators)])

ClassCalls(file_node, classes) ==
    Flatten([i \in 1..Len(classes) |->
        << Op("class", file_node, classes[i].name) >>
            \o AnnotationCalls(file_node, classes[i].decorators)
            \o MethodCalls(file_node, classes[i].name, classes[i].methods)])

FunctionCalls(file_node, functions) ==
    Flatten([i \in 1..Len(functions) |->
        << Op("function", file_node, functions[i]) >>
            \o AnnotationCalls(file_node, functions[i].decorators)])

_process_file_contents(seed, file_node, content) ==
    LET imports == SetIter(seed, content.imports)
    IN  [i \in 1..Len(imports) |-> Op("import", file_node, imports[i])]
        \o ClassCalls(file_node, content.classes)
        \o FunctionCalls(file_node, content.functions)
        \o [i \in 1..Len(content.variables) |->
                Op("variable", file_node, content.variables[i])]
        \o [i \in 1..Len(content.comments) |->
                Op("comment", file_node, content.comments[i])]

\* the node id an add operation is about
CallId(seed, c) ==
    CASE c.op = "import" -> Prefix.Import \o c.b
      [] c.op = "class" -> Prefix.Class \o c.b
      [] c.op = "annotation" -> Prefix.Decorator \o c.b
      [] c.op = "method" -> Prefix.Method \o c.b.name
      [] c.op = "function" -> Prefix.Function \o c.b.name
      [] c.op = "variable" -> Prefix.Variable \o c.b.name
      [] c.op = "comment" -> CommentId(seed.hash, c.b)
      [] c.op = "localization" ->
            Prefix.i18n \o basename(IF HasKey(c.b, Key.path)
                               THEN Get(c.b, Key.path).s ELSE Lit.unknown_path)
      [] c.op = "localization_file" -> Prefix.i18n \o basename(c.b)

Apply(S, seed, c) ==
    CASE c.op = "import" -> _add_import_node(S, c.a, c.b)
      [] c.op = "class" -> _add_class_node(S, c.a, c.b)
      [] c.op = "annotation" -> _add_annotation_node(S, c.a, c.b)
      [] c.op = "method" -> _add_method_node(S, c.a, c.b)
      [] c.op = "function" -> _add_function_node(S, c.a, c.b)
      [] c.op = "variable" -> _add_variable_node(S, c.a, c.b)
      [] c.op = "comment" -> _add_comment_node(S, seed.hash, c.a, c.b)
      [] c.op = "localization" -> _add_localization_usage_node(S, c.a, c.b)
      [] c.op = "localization_file" -> _process_localization_file(S, c.b)

\* the edge an add operation inserts
CallRelation(c) ==
    CASE c.op = "import" -> Rel.IMPORTS
      [] c.op = "class" -> Rel.DEFINES
      [] c.op = "annotation" -> Rel.DECORATED_WITH
      [] c.op = "method" -> Rel.HAS_METHOD
      [] c.op = "function" -> Rel.DEFINES
      [] c.op = "variable" -> Rel.HAS_VARIABLE
      [] c.op = "comment" -> Rel.HAS_COMMENT
      [] c.op = "localization" -> Rel.USES
      [] c.op = "localization_file" -> Rel.CONTAINS

CallSource(c) ==
    CASE c.op = "method" -> Prefix.Class \o c.a
      [] c.op = "localization_file" -> Prefix.File \o c.b
      [] OTHER -> c.a

CallEdge(seed, c) ==
    [source |-> CallSource(c), target |-> CallId(seed, c),
     relation |-> CallRelation(c)]

\* every add operation inserts its edge, except _add_method_node for a
\* class that has no node
CallAddsEdge(G, c) == c.op = "method" => has_node(G, Prefix.Class \o c.a)

\* and then logs the warning that the class node does not exist
CallWarns(G, c) == c.op = "method" /\ ~has_node(G, Prefix.Class \o c.a)

\* what a step records of the add operation it made
Called(G, seed, c) ==
    [op |-> c.op, id |-> CallId(seed, c),
     existed |-> has_node(G, CallId(seed, c)),
     edge |-> CallEdge(seed, c), edged |-> CallAddsEdge(G, c),
     before |-> Relation(G, CallSource(c), CallId(seed, c)),
     warned |-> CallWarns(G, c)]

\* _process_python_file up to its call of _process_file_contents
FileNode(relative_path) == Prefix.File \o relative_path

OpenPythonFile(S, relative_path) ==
    [S EXCEPT
        !.stats.files_processed = @ + 1,
        !.graph = add_node(@, FileNode(relative_path),
            << Item(Key.type, JStr(Type.file)),
               Item(Key.path, JStr(relative_path)),
               Item(Key.encoding, JStr(Lit.UTF8)),
               Item(Key.fileType, JStr(Lit.SOURCE_CODE)) >>)]

---------------------------------------------------------------------------
(* save_graph: json_graph.node_link_data(self.graph, edges="links") and   *)
(* the metadata written beside it                                         *)

\* {**G.nodes[n], "id": n}
NodeDict(G, i) == Put(G.attr[i], Key.id, JStr(G.nodes[i]))

\* G.edges: for each node in node order, its out-edges in the order their
\* pairs were first added
OutEdges(G, u) == SelectSeq(G.edges, LAMBDA e : e.source = u)

Links(G) == Flatten([i \in 1..Len(G.nodes) |-> OutEdges(G, G.nodes[i])])

node_link_data(G) ==
    [directed |-> TRUE, multigraph |-> FALSE,
     nodes |-> [i \in 1..Len(G.nodes) |-> NodeDict(G, i)],
     links |-> Links(G)]

Metadata(S, now) ==
    [stats |->
        [files_processed |-> S.stats.files_processed,
         files_with_errors |-> S.stats.files_with_errors,
         total_classes |-> S.stats.total_classes,
         total_functions |-> S.stats.total_functions,
         total_variables |-> S.stats.total_variables,
         total_imports |-> S.stats.total_imports,
         total_annotations |-> Cardinality(S.stats.total_annotations),
         total_comments |-> S.stats.total_comments],
     analysis_timestamp |-> now]

save_graph(S, now) ==
    [exists |-> TRUE, graph |-> node_link_data(S.graph),
     metadata |-> Metadata(S, now)]

NoFile ==
    [exists |-> FALSE, graph |-> node_link_data(EmptyGraph),
     metadata |-> Metadata(InitState, 0)]

---------------------------------------------------------------------------
(* compression.py *)

\* collect_terms that harvests no dict key
RECURSIVE collect_terms_no_keys(_)
collect_terms_no_keys(value) ==
    IF value.t \in {"list", "dict"}
    THEN UNION {collect_terms_no_keys(value.items[i].v) :
                    i \in 1..Len(value.items)}
    ELSE {PyStr(value)}

RECURSIVE collect_terms(_)
collect_terms(value) ==
    IF value.t = "list"
    THEN UNION {collect_terms(value.items[i].v) : i \in 1..Len(value.items)}
    ELSE IF value.t = "dict"
    THEN UNION {{value.items[i].k} \cup collect_terms(value.items[i].v) :
                    i \in 1..Len(value.items)}
    ELSE {PyStr(value)}

NodeTerms(node) ==
    {PyStr(Get(node, Key.id))}
        \cup UNION {{node[i].k} \cup collect_terms(node[i].v) :
                        i \in 1..Len(node)}

LinkTerms(link) == {link.source, link.relation, link.target}

unique_terms(kg) ==
    UNION {NodeTerms(kg.graph.nodes[i]) : i \in 1..Len(kg.graph.nodes)}
        \cup UNION {LinkTerms(kg.graph.links[i]) :
                        i \in 1..Len(kg.graph.links)}

\* sorted(): ascending by code points
Least(S) == CHOOSE x \in S : \A y \in S \ {x} : StrLess(x, y)

\* sorted(unique_terms, reverse=True)
RECURSIVE sorted_reverse(_)
sorted_reverse(S) ==
    IF S = {} THEN <<>>
    ELSE sorted_reverse(S \ {Least(S)}) \o <<Least(S)>>

RECURSIVE sorted(_)
sorted(S) ==
    IF S = {} THEN <<>> ELSE <<Least(S)>> \o sorted(S \ {Least(S)})

\* f"T{idx}"
Surrogate(idx) == <<"T">> \o NatStr(idx)

\* the loop of generate_abbreviations without idx += 1
Assign_no_increment(terms) ==
    [i \in 1..Len(terms) |-> [term |-> terms[i], abbr |-> Surrogate(1)]]

\* the dict abbreviations, in insertion order
Assign(terms) ==
    [i \in 1..Len(terms) |-> [term |-> terms[i], abbr |-> Surrogate(i)]]

generate_abbreviations(kg) == Assign(sorted(unique_terms(kg)))

Keys(abbrs) == {abbrs[i].term : i \in 1..Len(abbrs)}

\* abbreviations[term]
Lookup(abbrs, term) ==
    abbrs[CHOOSE i \in 1..Len(abbrs) : abbrs[i].term = term].abbr

\* abbreviations.get(term, term)
LookupOr(abbrs, term) ==
    IF term \in Keys(abbrs) THEN Lookup(abbrs, term) ELSE term

RECURSIVE abbreviate_value(_, _)
abbreviate_value(value, abbrs) ==
    IF value.t = "list"
    THEN <<"[">>
         \o Join(<<",">>, [i \in 1..Len(value.items) |->
                abbreviate_value(value.items[i].v, abbrs)])
         \o <<"]">>
    ELSE IF value.t = "dict"
    THEN <<"{">>
         \o Join(<<",">>, [i \in 1..Len(value.items) |->
                Lookup(abbrs, value.items[i].k) \o <<":">>
                    \o abbreviate_value(value.items[i].v, abbrs)])
         \o <<"}">>
    ELSE LookupOr(abbrs, PyStr(value))

Instructions ==
    <<
        "#", " ", "C", "o", "m", "p", "r", "e", "s", "s", "e", "d", " ",
        "K", "n", "o", "w", "l", "e", "d", "g", "e", " ", "G", "r", "a",
        "p", "h", "\n",
        "#", " ", "I", "n", "s", "t", "r", "u", "c", "t", "i", "o", "n",
        "s", " ", "f", "o", "r", " ", "L", "L", "M", ":", "\n",
        "#", " ", "-", " ", "D", "a", "t", "a", " ", "i", "s", " ", "c",
        "o", "m", "p", "r", "e", "s", "s", "e", "d", " ", "u", "s", "i",
        "n", "g", " ", "a", "b", "b", "r", "e", "v", "i", "a", "t", "i",
        "o", "n", "s", ".", "\n",
        "#", " ", "-", " ", "U", "s", "e", " ", "t", "h", "e", " ", "c",
        "o", "d", "e", "b", "o", "o", "k", " ", "t", "o", " ", "m", "a",
        "p", " ", "a", "b", "b", "r", "e", "v", "i", "a", "t", "i", "o",
        "n", "s", " ", "b", "a", "c", "k", " ", "t", "o", " ", "t", "e",
        "r", "m", "s", ".", "\n",
        "#", " ", "-", " ", "E", "a", "c", "h", " ", "l", "i", "n", "e",
        " ", "r", "e", "p", "r", "e", "s", "e", "n", "t", "s", " ", "a",
        " ", "n", "o", "d", "e", " ", "o", "r", " ", "l", "i", "n", "k",
        ".", "\n",
        "#", " ", "-", " ", "N", "o", "d", "e", " ", "l", "i", "n", "e",
        "s", " ", "s", "t", "a", "r", "t", " ", "w", "i", "t", "h", " ",
        "'", "N", "'", " ", "a", "n", "d", " ", "a", "r", "e", " ", "i",
        "n", " ", "t", "h", "e", " ", "f", "o", "r", "m", "a", "t", ":",
        "\n",
        "#", " ", " ", " ", "N", "|", "I", "D", "|", "A", "T", "T", "R",
        "1", "=", "V", "A", "L", "1", ";", "A", "T", "T", "R", "2", "=",
        "V", "A", "L", "2", ";", ".", ".", ".", "\n",
        "#", " ", "-", " ", "L", "i", "n", "k", " ", "l", "i", "n", "e",
        "s", " ", "s", "t", "a", "r", "t", " ", "w", "i", "t", "h", " ",
        "'", "L", "'", " ", "a", "n", "d", " ", "a", "r", "e", " ", "i",
        "n", " ", "t", "h", "e", " ", "f", "o", "r", "m", "a", "t", ":",
        "\n",
        "#", " ", " ", " ", "L", "|", "S", "O", "U", "R", "C", "E", "|",
        "R", "E", "L", "A", "T", "I", "O", "N", "|", "T", "A", "R", "G",
        "E", "T", "\n",
        "#", " ", "-", " ", "A", "t", "t", "r", "i", "b", "u", "t", "e",
        "s", " ", "a", "n", "d", " ", "v", "a", "l", "u", "e", "s", " ",
        "a", "r", "e", " ", "a", "b", "b", "r", "e", "v", "i", "a", "t",
        "e", "d", " ", "u", "s", "i", "n", "g", " ", "t", "h", "e", " ",
        "c", "o", "d", "e", "b", "o", "o", "k", ".", "\n",
        "#", " ", "-", " ", "N", "e", "s", "t", "e", "d", " ", "s", "t",
        "r", "u", "c", "t", "u", "r", "e", "s", " ", "a", "r", "e", " ",
        "r", "e", "p", "r", "e", "s", "e", "n", "t", "e", "d", " ", "w",
        "i", "t", "h", " ", "b", "r", "a", "c", "k", "e", "t", "s", ":",
        "\n",
        "#", " ", " ", " ", "-", " ", "L", "i", "s", "t", "s", ":", " ",
        "[", "V", "A", "L", "1", ",", "V", "A", "L", "2", ",", ".", ".",
        ".", "]", "\n",
        "#", " ", " ", " ", "-", " ", "D", "i", "c", "t", "s", ":", " ",
        "{", "K", "E", "Y", "1", ":", "V", "A", "L", "1", ",", "K", "E",
        "Y", "2", ":", "V", "A", "L", "2", ",", ".", ".", ".", "}", "\n",
        "#", " ", "C", "o", "d", "e", "b", "o", "o", "k", ":" >>

\* sorted(abbreviations.items(), key=lambda x: x[1])
RECURSIVE SortByAbbr(_)
SortByAbbr(entries) ==
    IF entries = {} THEN <<>>
    ELSE LET e == CHOOSE x \in entries :
                    \A y \in entries \ {x} : StrLess(x.abbr, y.abbr)
         IN  <<e>> \o SortByAbbr(entries \ {e})

\* a codebook written in the order of the dict: T1, T2, ... by index
CodebookLines_by_index(abbrs) ==
    [i \in 1..Len(abbrs) |->
        <<"#", " ">> \o abbrs[i].abbr \o <<":">> \o abbrs[i].term]

CodebookLines(abbrs) ==
    LET entries == SortByAbbr(Range(abbrs))
    IN  [i \in 1..Len(entries) |->
            <<"#", " ">> \o entries[i].abbr \o <<":">> \o entries[i].term]

NodeAttrItems(node) == SelectSeq(node, LAMBDA it : it.k # Key.id)

NodeLine(node, abbrs) ==
    LET items == NodeAttrItems(node)
    IN  <<"N", "|">> \o Lookup(abbrs, PyStr(Get(node, Key.id))) \o <<"|">>
        \o Join(<<";">>, [i \in 1..Len(items) |->
                Lookup(abbrs, items[i].k) \o <<"=">>
                    \o abbreviate_value(items[i].v, abbrs)])

LinkLine(link, abbrs) ==
    <<"L", "|">> \o Lookup(abbrs, link.source) \o <<"|">>
        \o Lookup(abbrs, link.relation) \o <<"|">>
        \o Lookup(abbrs, link.target)

serialized_data(kg, abbrs) ==
    <<Instructions>>
        \o CodebookLines(abbrs)
        \o [i \in 1..Len(kg.graph.nodes) |->
                NodeLine(kg.graph.nodes[i], abbrs)]
        \o [i \in 1..Len(kg.graph.links) |->
                LinkLine(kg.graph.links[i], abbrs)]

serialize_knowledge_graph(kg, abbrs) ==
    Join(<<"\n">>, serialized_data(kg, abbrs))

\* the strings serialization looks up with abbreviations[...], which
\* raises KeyError for a missing key
RECURSIVE KeyLookups(_)
KeyLookups(value) ==
    IF value.t \in {"list", "dict"}
    THEN UNION {(IF value.t = "dict" THEN {value.items[i].k} ELSE {})
                    \cup KeyLookups(value.items[i].v) :
                        i \in 1..Len(value.items)}
    ELSE {}

\* the strings it looks up with abbreviations.get(str(value), str(value))
RECURSIVE ScalarLookups(_)
ScalarLookups(value) ==
    IF value.t \in {"list", "dict"}
    THEN UNION {ScalarLookups(value.items[i].v) : i \in 1..Len(value.items)}
    ELSE {PyStr(value)}

NodeKeyLookups(node) ==
    {PyStr(Get(node, Key.id))}
        \cup UNION {{NodeAttrItems(node)[i].k}
                        \cup KeyLookups(NodeAttrItems(node)[i].v) :
                            i \in 1..Len(NodeAttrItems(node))}

StrictLookups(kg) ==
    UNION {NodeKeyLookups(kg.graph.nodes[i]) : i \in 1..Len(kg.graph.nodes)}
        \cup UNION {LinkTerms(kg.graph.links[i]) :
                        i \in 1..Len(kg.graph.links)}

FallbackLookups(kg) ==
    UNION {UNION {ScalarLookups(NodeAttrItems(kg.graph.nodes[i])[j].v) :
                    j \in 1..Len(NodeAttrItems(kg.graph.nodes[i]))} :
                i \in 1..Len(kg.graph.nodes)}

---------------------------------------------------------------------------
(* The command-line run (__main__): analyze_codebase, save_graph, then     *)
(* compression.py on the saved file.  One step per add operation.          *)

NoEdge == [source |-> <<>>, target |-> <<>>, relation |-> <<>>]

NoCall ==
    [op |-> "none", id |-> <<>>, existed |-> FALSE, edge |-> NoEdge,
     edged |-> FALSE, before |-> <<>>, warned |-> FALSE]

\* a run on a directory that exists, with an output path that can be
\* written, before its first look for the output file
NoCli == [directory |-> TRUE, output |-> "writable", checks |-> 0]

\* no scanner has been called
NoScan == [op |-> "none", out |-> <<>>]

NoSeed == [hash |-> [c \in CommentContents |-> 0], rev |-> FALSE]

S0 == [graph |-> graph, stats |-> stats]

Init ==
    /\ dir \in Directories
    /\ hashseed \in Seeds
    /\ pc = "analyze"
    /\ pending = PyFiles
    /\ order = <<>>
    /\ graph = EmptyGraph
    /\ stats = InitStats
    /\ analyzed_files = {}
    /\ todo = <<>>
    /\ call = NoCall
    /\ ncalls = 0
    /\ json_file = NoFile
    /\ abbreviations = <<>>
    /\ compressed = <<>>
    /\ runs = <<>>
    /\ source = <<>>
    /\ scanned = NoScan
    /\ cli = NoCli

\* a file that open() or read() raises on (OSError, UnicodeDecodeError)
Unreadable == [raises |-> "read"]

Raises(content) == "raises" \in DOMAIN content

\* an except clause that swallows the exception without counting it
HandleException_uncounted(S) == S

\* an except clause that counts the error and takes back what was inserted
HandleException_rollback(S) ==
    [S EXCEPT !.stats.files_with_errors = @ + 1, !.graph = EmptyGraph]

\* except Exception of _process_python_file
HandleException(S) == [S EXCEPT !.stats.files_with_errors = @ + 1]

\* _process_codebase reaches a .py file of the walk: _process_python_file
ProcessPythonFile ==
    /\ pc = "analyze"
    /\ todo = <<>>
    /\ \E f \in pending \cap PyFiles :
        /\ pending' = pending \ {f}
        /\ order' = Append(order, f)
        /\ IF f \in analyzed_files
           THEN UNCHANGED <<graph, stats, analyzed_files, todo, call>>
           ELSE IF Raises(dir[f])
           THEN LET S == HandleException(
                            [S0 EXCEPT !.stats.files_processed = @ + 1])
                IN  /\ stats' = S.stats
                    /\ todo' = <<>>
                    /\ call' = [NoCall EXCEPT
                                    !.op = "error", !.id = FileNode(f)]
                    /\ UNCHANGED <<graph, analyzed_files>>
           ELSE LET S == OpenPythonFile(S0, f)
                IN  /\ graph' = S.graph
                    /\ stats' = S.stats
                    /\ analyzed_files' = analyzed_files \cup {f}
                    /\ todo' = _process_file_contents(hashseed, FileNode(f),
                                                      dir[f])
                    /\ call' = [NoCall EXCEPT
                                    !.op = "file", !.id = FileNode(f),
                                    !.existed = has_node(graph, FileNode(f))]
    /\ UNCHANGED <<dir, hashseed, pc, ncalls, json_file, abbreviations,
                   compressed, runs, source, scanned, cli>>

\* the next add operation of _process_file_contents
Step(op) ==
    /\ pc = "analyze"
    /\ todo # <<>>
    /\ Head(todo).op = op
    /\ LET c == Head(todo)
           S == Apply(S0, hashseed, c)
       IN  /\ graph' = S.graph
           /\ stats' = S.stats
           /\ call' = Called(graph, hashseed, c)
    /\ todo' = Tail(todo)
    /\ UNCHANGED <<dir, hashseed, pc, pending, order, analyzed_files, ncalls,
                   json_file, abbreviations, compressed, runs, source,
                   scanned, cli>>

AddImportNode == Step("import")

AddClassNode == Step("class")

AddAnnotationNode == Step("annotation")

AddMethodNode == Step("method")

AddFunctionNode == Step("function")

AddVariableNode == Step("variable")

AddCommentNode == Step("comment")

AnalysisDone == pc # "analyze" \/ (pending = {} /\ todo = <<>>)

\* graph_generator.save_graph(output_file), at wall-clock time now
SaveGraph ==
    /\ pc = "analyze"
    /\ pending = {}
    /\ todo = <<>>
    /\ \E now \in 0..MaxClock : json_file' = save_graph(S0, now)
    /\ pc' = "saved"
    /\ call' = NoCall
    /\ UNCHANGED <<dir, hashseed, pending, order, graph, stats,
                   analyzed_files, todo, ncalls, abbreviations, compressed,
                   runs, source, scanned, cli>>

\* compression.py: abbreviations = generate_abbreviations(knowledge_graph)
GenerateAbbreviations ==
    /\ pc = "saved"
    /\ json_file.exists
    /\ abbreviations' = generate_abbreviations(json_file)
    /\ pc' = "abbreviated"
    /\ UNCHANGED <<dir, hashseed, pending, order, graph, stats,
                   analyzed_files, todo, call, ncalls, json_file, compressed,
                   runs, source, scanned, cli>>

\* compression.py: serialize_knowledge_graph and the write of its result
SerializeKnowledgeGraph ==
    /\ pc = "abbreviated"
    /\ IF StrictLookups(json_file) \subseteq Keys(abbreviations)
       THEN /\ compressed' =
                    serialize_knowledge_graph(json_file, abbreviations)
            /\ pc' = "done"
       ELSE /\ pc' = "KeyError"
            /\ UNCHANGED compressed
    /\ UNCHANGED <<dir, hashseed, pending, order, graph, stats,
                   analyzed_files, todo, call, ncalls, json_file,
                   abbreviations, runs, source, scanned, cli>>

Next ==
    \/ ProcessPythonFile
    \/ AddImportNode
    \/ AddClassNode
    \/ AddAnnotationNode
    \/ AddMethodNode
    \/ AddFunctionNode
    \/ AddVariableNode
    \/ AddCommentNode
    \/ SaveGraph
    \/ GenerateAbbreviations
    \/ SerializeKnowledgeGraph

Spec == Init /\ [][Next]_vars

---------------------------------------------------------------------------
(* analyze_codebase and save_graph on a directory in which files may fail *)
(* to be read, and in which an exception may be raised while the contents *)
(* of a file are processed (every add operation catches its own           *)
(* exceptions and every scanner returns for every text, so such an        *)
(* exception comes from the interpreter: MemoryError, RecursionError).    *)
(* The program is sequential and runs on: weak fairness of its steps.     *)

FaultyDirectories == [PyFiles -> Contents \cup {Unreadable}]

InitFaults ==
    /\ dir \in FaultyDirectories
    /\ hashseed = NoSeed
    /\ pc = "analyze"
    /\ pending = PyFiles
    /\ order = <<>>
    /\ graph = EmptyGraph
    /\ stats = InitStats
    /\ analyzed_files = {}
    /\ todo = <<>>
    /\ call = NoCall
    /\ ncalls = 0
    /\ json_file = NoFile
    /\ abbreviations = <<>>
    /\ compressed = <<>>
    /\ runs = <<>>
    /\ source = <<>>
    /\ scanned = NoScan
    /\ cli = NoCli

\* _process_file_contents raises before its next add operation: its except
\* clause logs and raises again, the one of _process_python_file handles
RaiseInFileContents ==
    /\ pc = "analyze"
    /\ todo # <<>>
    /\ LET S == HandleException(S0)
       IN  /\ graph' = S.graph
           /\ stats' = S.stats
    /\ todo' = <<>>
    /\ call' = [NoCall EXCEPT !.op = "error", !.id = FileNode(order[Len(order)])]
    /\ UNCHANGED <<dir, hashseed, pc, pending, order, analyzed_files,
                   ncalls, json_file, abbreviations, compressed, runs,
                   source, scanned, cli>>

NextFaults ==
    \/ ProcessPythonFile
    \/ AddImportNode
    \/ AddClassNode
    \/ AddAnnotationNode
    \/ AddMethodNode
    \/ AddFunctionNode
    \/ AddVariableNode
    \/ AddCommentNode
    \/ RaiseInFileContents
    \/ SaveGraph

SpecFaults == InitFaults /\ [][NextFaults]_vars /\ WF_vars(NextFaults)

---------------------------------------------------------------------------
(* The __main__ block with what it finds on disk: the directory it is     *)
(* given may not exist, the output path may not be writable (no           *)
(* compression directory can be made, or the file cannot be opened for    *)
(* writing), and a file of an earlier run may lie at the output path.     *)

\* for _ in range(10)
PollChecks == 10

Outputs == {"writable", "no_directory", "read_only"}

\* python_code_knowledge_graph.json as an earlier run on an empty directory
\* left it
EarlierFile == save_graph(InitState, 0)

InitCli ==
    /\ dir \in Directories
    /\ hashseed = NoSeed
    /\ pc = "main"
    /\ pending = PyFiles
    /\ order = <<>>
    /\ graph = EmptyGraph
    /\ stats = InitStats
    /\ analyzed_files = {}
    /\ todo = <<>>
    /\ call = NoCall
    /\ ncalls = 0
    /\ json_file \in {NoFile, EarlierFile}
    /\ abbreviations = <<>>
    /\ compressed = <<>>
    /\ runs = <<>>
    /\ source = <<>>
    /\ scanned = NoScan
    /\ cli \in [directory : BOOLEAN, output : Outputs, checks : {0}]

\* if not os.path.exists(codebase_dir): raise ValueError, and
\* os.makedirs(compression_dir, exist_ok=True)
CheckDirectory ==
    /\ pc = "main"
    /\ pc' = IF ~cli.directory \/ cli.output = "no_directory"
             THEN "Error" ELSE "analyze"
    /\ UNCHANGED <<dir, hashseed, pending, order, graph, stats,
                   analyzed_files, todo, call, ncalls, json_file,
                   abbreviations, compressed, runs, source, scanned, cli>>

\* a save_graph that lets the exception of open() through to the except
\* clause of the __main__ block
SaveGraphToPath_propagating ==
    /\ pc = "analyze"
    /\ pending = {}
    /\ todo = <<>>
    /\ IF cli.output = "writable"
       THEN \E now \in 0..MaxClock : json_file' = save_graph(S0, now)
       ELSE UNCHANGED json_file
    /\ pc' = IF cli.output = "writable" THEN "poll" ELSE "Error"
    /\ call' = NoCall
    /\ UNCHANGED <<dir, hashseed, pending, order, graph, stats,
                   analyzed_files, todo, ncalls, abbreviations, compressed,
                   runs, source, scanned, cli>>

\* graph_generator.save_graph(output_file): an exception of open() is
\* logged by save_graph, which returns
SaveGraphToPath ==
    /\ pc = "analyze"
    /\ pending = {}
    /\ todo = <<>>
    /\ IF cli.output = "writable"
       THEN \E now \in 0..MaxClock : json_file' = save_graph(S0, now)
       ELSE UNCHANGED json_file
    /\ pc' = "poll"
    /\ call' = NoCall
    /\ UNCHANGED <<dir, hashseed, pending, order, graph, stats,
                   analyzed_files, todo, ncalls, abbreviations, compressed,
                   runs, source, scanned, cli>>

\* a wait loop that goes on to the compression pass when it gives up
AfterCheck_never_raises(exists, checks) ==
    IF exists \/ checks = PollChecks THEN "saved" ELSE "poll"

\* where the run is after a look for the output file, the checks-th one:
\* break, the else clause of the loop, or time.sleep(1)
AfterCheck(exists, checks) ==
    IF exists THEN "saved"
    ELSE IF checks = PollChecks THEN "Error"
    ELSE "poll"

\* one pass of the loop "for _ in range(10)": os.path.exists(output_file),
\* break or time.sleep(1); its else clause raises FileNotFoundError
WaitForOutputFile ==
    /\ pc = "poll"
    /\ cli' = [cli EXCEPT !.checks = @ + 1]
    /\ pc' = AfterCheck(json_file.exists, cli.checks + 1)
    /\ UNCHANGED <<dir, hashseed, pending, order, graph, stats,
                   analyzed_files, todo, call, ncalls, json_file,
                   abbreviations, compressed, runs, source, scanned>>

\* another run of the program writes its file to the output path while
\* this one sleeps
OtherRunSaves ==
    /\ pc = "poll"
    /\ cli.checks > 0
    /\ ~json_file.exists
    /\ json_file' = EarlierFile
    /\ UNCHANGED <<dir, hashseed, pc, pending, order, graph, stats,
                   analyzed_files, todo, call, ncalls, abbreviations,
                   compressed, runs, source, scanned, cli>>

NextCli ==
    \/ CheckDirectory
    \/ ProcessPythonFile
    \/ AddImportNode
    \/ AddClassNode
    \/ AddAnnotationNode
    \/ AddMethodNode
    \/ AddFunctionNode
    \/ AddVariableNode
    \/ AddCommentNode
    \/ SaveGraphToPath
    \/ WaitForOutputFile
    \/ OtherRunSaves
    \/ GenerateAbbreviations
    \/ SerializeKnowledgeGraph

SpecCli == InitCli /\ [][NextCli]_vars

---------------------------------------------------------------------------
(* compression.py run on a saved graph file.  The files are node-link     *)
(* graphs as save_graph writes them: distinct node ids, link endpoints    *)
(* among the nodes, at most one link per pair, links grouped by source in *)
(* node order.                                                            *)

\* a node created by add_edge alone: no attributes
BareNode == <<Item(Key.id, JStr(<<"A">>))>>

\* a class whose name reads like a surrogate
ClassNode ==
    <<Item(Key.type, JStr(Type.class)), Item(Key.name, JStr(<<"T", "1">>)),
      Item(Key.id, JStr(<<"B">>))>>

\* a function with nested parameters, an int and a null
FunctionNode ==
    <<Item(Key.type, JStr(Type.function)),
      Item(Key.parameters,
           JList(<<Elem(JDict(<<Item(Key.name, JStr(<<"x">>)),
                                Item(Key.default, JNull)>>))>>)),
      Item(Key.decorators, JList(<<>>)),
      Item(Key.line_number, JInt(10)),
      Item(Key.id, JStr(<<"C">>))>>

\* a comment whose content has a line break, as the content of a docstring
\* of two lines has
DocstringNode ==
    <<Item(Key.type, JStr(Type.comment)),
      Item(Key.content, JStr(<<"x", "\n", "y">>)),
      Item(Key.tags, JList(<<Elem(JStr(<<"x">>))>>)),
      Item(Key.id, JStr(<<"D">>))>>

NodePool == {BareNode, ClassNode, FunctionNode, DocstringNode}

Link(u, v, r) == [source |-> u, target |-> v, relation |-> r]

LinkPool ==
    {Link(<<"A">>, <<"B">>, Rel.DEFINES),
     Link(<<"B">>, <<"A">>, Rel.HAS_METHOD),
     Link(<<"A">>, <<"C">>, Rel.DEFINES),
     Link(<<"D">>, <<"D">>, Rel.HAS_COMMENT)}

Injective(s) == \A i, j \in 1..Len(s) : s[i] = s[j] => i = j

NodeSeqs ==
    UNION {{s \in [1..n -> NodePool] : Injective(s)} : n \in 0..MaxNodes}

NodeIds(nodes) == {Get(nodes[i], Key.id).s : i \in 1..Len(nodes)}

IdIndex(nodes, id) ==
    CHOOSE i \in 1..Len(nodes) : Get(nodes[i], Key.id).s = id

LinkSeqs(nodes) ==
    LET usable == {l \in LinkPool : /\ l.source \in NodeIds(nodes)
                                    /\ l.target \in NodeIds(nodes)}
    IN  UNION {{s \in [1..n -> usable] :
                    /\ Injective(s)
                    /\ \A i, j \in 1..n :
                         i < j => IdIndex(nodes, s[i].source)
                                    <= IdIndex(nodes, s[j].source)} :
               n \in 0..MaxLinks}

JsonFile(nodes, links) ==
    [exists |-> TRUE,
     graph |-> [directed |-> TRUE, multigraph |-> FALSE,
                nodes |-> nodes, links |-> links],
     metadata |-> Metadata(InitState, 0)]

JsonFiles ==
    UNION {{JsonFile(nodes, links) : links \in LinkSeqs(nodes)} :
           nodes \in NodeSeqs}

InitCompress ==
    /\ dir = [f \in PyFiles |-> K3]
    /\ hashseed = NoSeed
    /\ pc = "saved"
    /\ pending = {}
    /\ order = <<>>
    /\ graph = EmptyGraph
    /\ stats = InitStats
    /\ analyzed_files = {}
    /\ todo = <<>>
    /\ call = NoCall
    /\ ncalls = 0
    /\ json_file \in JsonFiles
    /\ abbreviations = <<>>
    /\ compressed = <<>>
    /\ runs = <<>>
    /\ source = <<>>
    /\ scanned = NoScan
    /\ cli = NoCli

NextCompress ==
    \/ GenerateAbbreviations
    \/ SerializeKnowledgeGraph

SpecCompress == InitCompress /\ [][NextCompress]_vars

---------------------------------------------------------------------------
(* Complete runs of the command line on one unchanged directory, each in  *)
(* its own process: its own walk order, hash seed and wall clock.         *)

RECURSIVE ApplyAll(_, _, _)
ApplyAll(S, seed, calls) ==
    IF calls = <<>> THEN S
    ELSE LET T == Apply(S, seed, Head(calls))
         IN  \* T = T has TLC evaluate T before the next call
             IF T = T THEN ApplyAll(T, seed, Tail(calls)) ELSE S

\* _process_python_file, whole
_process_python_file(S, seed, d, f) ==
    ApplyAll(OpenPythonFile(S, f), seed,
             _process_file_contents(seed, FileNode(f), d[f]))

\* _process_codebase over the .py files in walk order
RECURSIVE _process_codebase(_, _, _, _)
_process_codebase(S, seed, d, walk) ==
    IF walk = <<>> THEN S
    ELSE _process_codebase(_process_python_file(S, seed, d, Head(walk)),
                           seed, d, Tail(walk))

analyze_codebase(seed, d, walk) == _process_codebase(InitState, seed, d, walk)

Walks == {w \in [1..Cardinality(PyFiles) -> PyFiles] : Injective(w)}

\* compression.py, whole
Compress(kg) == serialize_knowledge_graph(kg, generate_abbreviations(kg))

InitRuns ==
    /\ dir \in Directories
    /\ hashseed = NoSeed
    /\ pc = "runs"
    /\ pending = {}
    /\ order = <<>>
    /\ graph = EmptyGraph
    /\ stats = InitStats
    /\ analyzed_files = {}
    /\ todo = <<>>
    /\ call = NoCall
    /\ ncalls = 0
    /\ json_file = NoFile
    /\ abbreviations = <<>>
    /\ compressed = <<>>
    /\ runs = <<>>
    /\ source = <<>>
    /\ scanned = NoScan
    /\ cli = NoCli

\* the wall clock does not run backwards between runs
Clock ==
    IF runs = <<>> THEN 0
    ELSE runs[Len(runs)].json.metadata.analysis_timestamp

\* python CntxtPY.py <dir>, from start to the written files
RunPipeline ==
    /\ pc = "runs"
    /\ Len(runs) < 2
    /\ \E walk \in Walks, sd \in Seeds, now \in Clock..MaxClock :
        runs' = Append(runs,
                       [walk |-> walk, seed |-> sd,
                        json |-> save_graph(analyze_codebase(sd, dir, walk),
                                            now)])
    /\ UNCHANGED <<dir, hashseed, pc, pending, order, graph, stats,
                   analyzed_files, todo, call, ncalls, json_file,
                   abbreviations, compressed, source, scanned, cli>>

NextRuns == RunPipeline

SpecRuns == InitRuns /\ [][NextRuns]_vars

---------------------------------------------------------------------------
(* The add operations called one by one on a PythonCodeKnowledgeGraph,    *)
(* with arguments of the caller's choice.                                 *)

x_po == <<"x", ".", "p", "o">>

ApiFileNodes == {FileNode(<<"a", ".", "p", "y">>), FileNode(x_po)}

ApiLocalizations == {<<>>, <<Item(Key.path, JStr(x_po))>>}

InitApi ==
    /\ dir = [f \in PyFiles |-> K3]
    /\ hashseed = NoSeed
    /\ pc = "api"
    /\ pending = {}
    /\ order = <<>>
    /\ graph = EmptyGraph
    /\ stats = InitStats
    /\ analyzed_files = {}
    /\ todo = <<>>
    /\ call = NoCall
    /\ ncalls = 0
    /\ json_file = NoFile
    /\ abbreviations = <<>>
    /\ compressed = <<>>
    /\ runs = <<>>
    /\ source = <<>>
    /\ scanned = NoScan
    /\ cli = NoCli

Call(c) ==
    /\ pc = "api"
    /\ ncalls < MaxCalls
    /\ LET S == Apply(S0, hashseed, c)
       IN  /\ graph' = S.graph
           /\ stats' = S.stats
           /\ call' = Called(graph, hashseed, c)
    /\ ncalls' = ncalls + 1
    /\ UNCHANGED <<dir, hashseed, pc, pending, order, analyzed_files, todo,
                   json_file, abbreviations, compressed, runs, source,
                   scanned, cli>>

CallAddImportNode ==
    \E f \in ApiFileNodes : Call(Op("import", f, <<"o", "s">>))

CallAddClassNode ==
    \E f \in ApiFileNodes : Call(Op("class", f, <<"A">>))

CallAddMethodNode ==
    Call(Op("method", <<"A">>,
            FunctionInfo(<<"m">>, << Parameter(<<"x">>) >>)))

CallAddLocalizationUsageNode ==
    \E f \in ApiFileNodes, l \in ApiLocalizations :
        Call(Op("localization", f, l))

CallProcessLocalizationFile ==
    Call(Op("localization_file", <<>>, x_po))

NextApi ==
    \/ CallAddImportNode
    \/ CallAddClassNode
    \/ CallAddMethodNode
    \/ CallAddLocalizationUsageNode
    \/ CallProcessLocalizationFile

SpecApi == InitApi /\ [][NextApi]_vars

---------------------------------------------------------------------------
(* CodeIdentifierExtractor._parse_parameters: the parameter list of a def  *)
(* line, as the text between its parentheses.                             *)

Opens == {"(", "[", "{"}

Closes == {")", "]", "}"}

\* the loop over params_str: depth, current and params after the text s
RECURSIVE SplitLoop(_, _, _, _)
SplitLoop(s, depth, current, params) ==
    IF s = <<>>
    THEN IF current # <<>> THEN Append(params, strip(current)) ELSE params
    ELSE LET char == Head(s)
         IN  IF char \in Opens
             THEN SplitLoop(Tail(s), depth + 1, Append(current, char),
                            params)
             ELSE IF char \in Closes
             THEN SplitLoop(Tail(s), depth - 1, Append(current, char),
                            params)
             ELSE IF char = "," /\ depth = 0
             THEN SplitLoop(Tail(s), depth, <<>>,
                            Append(params, strip(current)))
             ELSE SplitLoop(Tail(s), depth, Append(current, char), params)

\* a loop that takes every comma for a separator
SplitAtEveryComma(params_str) ==
    LET parts == Split(params_str, ",")
    IN  [i \in 1..Len(parts) |-> strip(parts[i])]

SplitAtDepthZero(params_str) == SplitLoop(params_str, 0, <<>>, <<>>)

\* name.split('=', 1)
SplitOnce(s, sep) ==
    IF \E i \in 1..Len(s) : s[i] = sep
    THEN LET parts == Split(s, sep)
         IN  << parts[1], SubSeq(s, Len(parts[1]) + 2, Len(s)) >>
    ELSE <<s>>

\* the body of "for param in params", for a param that is not empty
ParseParameter(param) ==
    LET parts == Split(param, ":")
        name == strip(parts[1])
    IN  IF Len(parts) > 1
        THEN LET type_parts == Split(parts[2], "=")
             IN  [name |-> JStr(name),
                  type_hint |-> JStr(strip(type_parts[1])),
                  default_value |->
                     IF Len(type_parts) > 1
                     THEN JStr(strip(type_parts[2]))
                     ELSE JNull]
        ELSE IF \E i \in 1..Len(name) : name[i] = "="
        THEN LET pair == SplitOnce(name, "=")
             IN  [name |-> JStr(strip(pair[1])), type_hint |-> JNull,
                  default_value |-> JStr(strip(pair[2]))]
        ELSE [name |-> JStr(name), type_hint |-> JNull,
              default_value |-> JNull]

_parse_parameters(params_str) ==
    IF strip(params_str) = <<>> THEN <<>>
    ELSE LET params == SelectSeq(SplitAtDepthZero(params_str),
                                 LAMBDA param : strip(param) # <<>>)
         IN  [i \in 1..Len(params) |-> ParseParameter(strip(params[i]))]

\* x: Dict[str, int] = {"a": 1}, y: int = 2
TypedDefaults ==
    << "x", ":", " ", "D", "i", "c", "t", "[", "s", "t", "r", ",", " ", "i",
       "n", "t", "]", " ", "=", " ", "{", "\"", "a", "\"", ":", " ", "1",
       "}", ",", " ", "y", ":", " ", "i", "n", "t", " ", "=", " ", "2" >>

ParamChars == {"x", ",", ":", "=", "[", "]", " "}

ParamStrings ==
    UNION {[1..n -> ParamChars] : n \in 0..MaxParamLen} \cup {TypedDefaults}

\* every variable of the assembler, the run and the compressor at rest
AtRest ==
    /\ dir = [f \in PyFiles |-> K3]
    /\ hashseed = NoSeed
    /\ pending = {}
    /\ order = <<>>
    /\ graph = EmptyGraph
    /\ stats = InitStats
    /\ analyzed_files = {}
    /\ todo = <<>>
    /\ call = NoCall
    /\ ncalls = 0
    /\ json_file = NoFile
    /\ abbreviations = <<>>
    /\ compressed = <<>>
    /\ runs = <<>>

InitParams ==
    /\ AtRest
    /\ pc = "scan"
    /\ source \in ParamStrings
    /\ scanned = NoScan
    /\ cli = NoCli

Scanned(op, out) ==
    /\ pc = "scan"
    /\ scanned = NoScan
    /\ scanned' = [op |-> op, out |-> out]
    /\ UNCHANGED <<dir, hashseed, pc, pending, order, graph, stats,
                   analyzed_files, todo, call, ncalls, json_file,
                   abbreviations, compressed, runs, source, cli>>

ParseParameters == Scanned("_parse_parameters", _parse_parameters(source))

NextParams == ParseParameters

SpecParams == InitParams /\ [][NextParams]_vars

---------------------------------------------------------------------------
(* Regular expressions of regex_components, on one line of text.          *)

\* \w
WordChars ==
    { "0", "1", "2", "3", "4", "5", "6", "7", "8", "9",
      "A", "B", "C", "D", "E", "F", "G", "H", "I", "J", "K", "L", "M",
      "N", "O", "P", "Q", "R", "S", "T", "U", "V", "W", "X", "Y", "Z",
      "a", "b", "c", "d", "e", "f", "g", "h", "i", "j", "k", "l", "m",
      "n", "o", "p", "q", "r", "s", "t", "u", "v", "w", "x", "y", "z",
      "_" }

\* str.upper()
upper(s) ==
    [i \in 1..Len(s) |->
        IF Ord[s[i]] \in Ord["a"]..Ord["z"]
        THEN CharOrder[Ord[s[i]] - Ord["a"] + Ord["A"]]
        ELSE s[i]]

\* s[i:].startswith(p), for a position i from 1
StartsAt(s, i, p) ==
    /\ i + Len(p) - 1 <= Len(s)
    /\ SubSeq(s, i, i + Len(p) - 1) = p

\* p in s
Contains(s, p) == \E i \in 1..(Len(s) + 1) : StartsAt(s, i, p)

\* where a greedy run of the characters of class begun at position i ends:
\* the first position from i on that holds no character of class
Past(s, i, class) ==
    CHOOSE j \in i..(Len(s) + 1) :
        /\ \A k \in i..(j - 1) : s[k] \in class
        /\ j = Len(s) + 1 \/ s[j] \notin class

NoMatch == [matched |-> FALSE, groups |-> <<>>]

Match(groups) == [matched |-> TRUE, groups |-> groups]

---------------------------------------------------------------------------
(* CommentProcessor.extract_comments                                      *)

CommentType == [INLINE |-> INLINE, DOCSTRING |-> 2, TODO |-> 3, FIXME |-> 4]

Tag ==
    [TODO |-> <<"T", "O", "D", "O">>, FIXME |-> <<"F", "I", "X", "M", "E">>]

Quotes == { <<"\"", "\"", "\"">>, <<"'", "'", "'">> }

\* re.match(r'^[ \t]*("""|\'\'\')', line)
docstring_match(line) ==
    LET i == Past(line, 1, {" ", "\t"})
    IN  IF \E q \in Quotes : StartsAt(line, i, q)
        THEN Match(<< SubSeq(line, i, i + 2) >>)
        ELSE NoMatch

\* def_class_pattern.match: ^[ \t]*(def|class)\s+(\w+)\s*[\(:]?
def_class_pattern(line) ==
    LET i == Past(line, 1, {" ", "\t"})
        kw == IF StartsAt(line, i, <<"d", "e", "f">>)
              THEN <<"d", "e", "f">>
              ELSE IF StartsAt(line, i, <<"c", "l", "a", "s", "s">>)
              THEN <<"c", "l", "a", "s", "s">>
              ELSE <<>>
        j == i + Len(kw)
        k == Past(line, j, Whitespace)
        e == Past(line, k, WordChars)
    IN  IF kw # <<>> /\ k > j /\ e > k
        THEN Match(<< kw, SubSeq(line, k, e - 1) >>)
        ELSE NoMatch

\* inline_comment_pattern.search: #.*
inline_comment_pattern(line) ==
    IF Contains(line, <<"#">>)
    THEN Match(<< SubSeq(line, Len(Split(line, "#")[1]) + 1, Len(line)) >>)
    ELSE NoMatch

\* \b at position i: between s[i-1] and s[i], one a \w and the other not
WordBoundary(s, i) ==
    (i > 1 /\ s[i - 1] \in WordChars) # (i <= Len(s) /\ s[i] \in WordChars)

\* a mutation: TODO and FIXME looked for anywhere after the '#', without
\* the word boundaries
todo_fixme_substring(line) ==
    \E h \in 1..Len(line) :
        /\ line[h] = "#"
        /\ \E w \in {Tag.TODO, Tag.FIXME} :
            Contains(upper(SubSeq(line, h + 1, Len(line))), w)

\* todo_fixme_pattern.search: #.*\b(TODO|FIXME)\b.*, re.IGNORECASE
todo_fixme_pattern(line) ==
    \E h \in 1..Len(line) :
        /\ line[h] = "#"
        /\ \E i \in (h + 1)..Len(line) : \E w \in {Tag.TODO, Tag.FIXME} :
            /\ StartsAt(upper(line), i, w)
            /\ WordBoundary(line, i)
            /\ WordBoundary(line, i + Len(w))

\* the loop variables of extract_comments before the first line
ScanStart ==
    [in_docstring |-> FALSE, docstring_delimiter |-> <<>>,
     docstring_start_line |-> 0, docstring_content |-> <<>>,
     associated_element |-> JNull, comments |-> <<>>]

\* the part of the loop body under "Check for inline comments"
InlineComment(line, line_number) ==
    LET comment_text == strip(inline_comment_pattern(line).groups[1])
        tagged == todo_fixme_pattern(line)
        type == IF tagged /\ Contains(upper(comment_text), Tag.TODO)
                THEN "TODO"
                ELSE IF tagged /\ Contains(upper(comment_text), Tag.FIXME)
                THEN "FIXME"
                ELSE "INLINE"
    IN  [content |-> comment_text, line_number |-> line_number,
         type |-> CommentType[type], associated_element |-> JNull,
         tags |-> IF type = "INLINE" THEN <<>> ELSE << Tag[type] >>]

\* a docstring closed by a triple quote of either kind
any_quote_in_line(v, line) == \E q \in Quotes : Contains(strip(line), q)

\* docstring_delimiter in stripped_line
delimiter_in_line(v, line) == Contains(strip(line), v.docstring_delimiter)

\* a loop body that takes a line with an opening and a closing triple quote
\* for a whole docstring
ScanLine_one_line_docstrings(v, lines, idx) ==
    LET line == lines[idx + 1]
        line_number == idx + 1
        rest == SubSeq(strip(line), 4, Len(strip(line)))
    IN  IF /\ ~v.in_docstring
           /\ docstring_match(line).matched
           /\ Contains(rest, docstring_match(line).groups[1])
        THEN [v EXCEPT
                !.comments = Append(@,
                    [content |-> strip(line),
                     line_number |-> line_number,
                     type |-> CommentType.DOCSTRING,
                     associated_element |-> JNull,
                     tags |-> <<>>])]
        ELSE IF ~v.in_docstring /\ docstring_match(line).matched
        THEN [v EXCEPT
                !.in_docstring = TRUE,
                !.docstring_delimiter = docstring_match(line).groups[1],
                !.docstring_start_line = line_number,
                !.docstring_content = line,
                !.associated_element =
                    IF idx > 0 /\ def_class_pattern(lines[idx]).matched
                    THEN JStr(def_class_pattern(lines[idx]).groups[2])
                    ELSE @]
        ELSE IF v.in_docstring
        THEN LET content == v.docstring_content \o <<"\n">> \o line
             IN  IF delimiter_in_line(v, line)
                 THEN [v EXCEPT
                         !.in_docstring = FALSE,
                         !.comments = Append(@,
                            [content |-> strip(content),
                             line_number |-> v.docstring_start_line,
                             type |-> CommentType.DOCSTRING,
                             associated_element |-> v.associated_element,
                             tags |-> <<>>]),
                         !.docstring_content = <<>>,
                         !.docstring_delimiter = <<>>,
                         !.associated_element = JNull]
                 ELSE [v EXCEPT !.docstring_content = content]
        ELSE IF inline_comment_pattern(line).matched
        THEN [v EXCEPT
                !.comments = Append(@, InlineComment(line, line_number))]
        ELSE v

\* a loop body that looks for a comment also in the lines of an open
\* docstring
ScanLine_comments_in_docstrings(v, lines, idx) ==
    LET line == lines[idx + 1]
        line_number == idx + 1
    IN  IF ~v.in_docstring /\ docstring_match(line).matched
        THEN [v EXCEPT
                !.in_docstring = TRUE,
                !.docstring_delimiter = docstring_match(line).groups[1],
                !.docstring_start_line = line_number,
                !.docstring_content = line,
                !.associated_element =
                    IF idx > 0 /\ def_class_pattern(lines[idx]).matched
                    THEN JStr(def_class_pattern(lines[idx]).groups[2])
                    ELSE @]
        ELSE IF v.in_docstring
        THEN LET content == v.docstring_content \o <<"\n">> \o line
             IN  IF delimiter_in_line(v, line)
                 THEN [v EXCEPT
                         !.in_docstring = FALSE,
                         !.comments = Append(@,
                            [content |-> strip(content),
                             line_number |-> v.docstring_start_line,
                             type |-> CommentType.DOCSTRING,
                             associated_element |-> v.associated_element,
                             tags |-> <<>>]),
                         !.docstring_content = <<>>,
                         !.docstring_delimiter = <<>>,
                         !.associated_element = JNull]
                 ELSE IF inline_comment_pattern(line).matched
                 THEN [v EXCEPT
                         !.docstring_content = content,
                         !.comments = Append(@,
                            InlineComment(line, line_number))]
                 ELSE [v EXCEPT !.docstring_content = content]
        ELSE IF inline_comment_pattern(line).matched
        THEN [v EXCEPT
                !.comments = Append(@, InlineComment(line, line_number))]
        ELSE v

\* one pass of the loop body: line idx + 1 of lines, from loop variables v
ScanLine(v, lines, idx) ==
    LET line == lines[idx + 1]
        line_number == idx + 1
    IN  IF ~v.in_docstring /\ docstring_match(line).matched
        THEN [v EXCEPT
                !.in_docstring = TRUE,
                !.docstring_delimiter = docstring_match(line).groups[1],
                !.docstring_start_line = line_number,
                !.docstring_content = line,
                !.associated_element =
                    IF idx > 0 /\ def_class_pattern(lines[idx]).matched
                    THEN JStr(def_class_pattern(lines[idx]).groups[2])
                    ELSE @]
        ELSE IF v.in_docstring
        THEN LET content == v.docstring_content \o <<"\n">> \o line
             IN  IF delimiter_in_line(v, line)
                 THEN [v EXCEPT
                         !.in_docstring = FALSE,
                         !.comments = Append(@,
                            [content |-> strip(content),
                             line_number |-> v.docstring_start_line,
                             type |-> CommentType.DOCSTRING,
                             associated_element |-> v.associated_element,
                             tags |-> <<>>]),
                         !.docstring_content = <<>>,
                         !.docstring_delimiter = <<>>,
                         !.associated_element = JNull]
                 ELSE [v EXCEPT !.docstring_content = content]
        ELSE IF inline_comment_pattern(line).matched
        THEN [v EXCEPT
                !.comments = Append(@, InlineComment(line, line_number))]
        ELSE v

RECURSIVE ScanLines(_, _, _)
ScanLines(v, lines, idx) ==
    IF idx >= Len(lines) THEN v
    ELSE ScanLines(ScanLine(v, lines, idx), lines, idx + 1)

extract_comments(content) ==
    ScanLines(ScanStart, Split(content, "\n"), 0).comments

\* lines of a file with comments and docstrings
CommentLine ==
    [
      class_Foo |->
          << "c", "l", "a", "s", "s", " ", "F", "o", "o", ":" >>,
      def_foo |->
          << "d", "e", "f", " ", "f", "o", "o", "(", "x", ")", ":" >>,
      one_line |->
          << " ", " ", " ", " ", "\"", "\"", "\"", "d", "o", "e", "s", " ",
             "f", "o", "o", "\"", "\"", "\"" >>,
      delimiter |->
          << " ", " ", " ", " ", "\"", "\"", "\"" >>,
      todo |->
          << "x", " ", "=", " ", "1", " ", " ", "#", " ", "T", "O", "D",
             "O", " ", "a" >>,
      fixme |->
          << "#", " ", "f", "i", "x", "m", "e" >>,
      both |->
          << "#", " ", "F", "I", "X", "M", "E", " ", "o", "r", " ", "T",
             "O", "D", "O" >>,
      fixme_mastodon |->
          << "#", " ", "F", "I", "X", "M", "E", ":", " ", "m", "a", "s",
             "t", "o", "d", "o", "n" >>,
      mastodon |->
          << "#", " ", "m", "a", "s", "t", "o", "d", "o", "n" >>,
      plain |->
          << "#", " ", "a" >> ]

CommentLines == {CommentLine[k] : k \in DOMAIN CommentLine}

\* the texts of up to MaxLines of these lines
CommentTexts ==
    {Join(<<"\n">>, lines) :
        lines \in UNION {[1..n -> CommentLines] : n \in 0..MaxLines}}

InitComments ==
    /\ AtRest
    /\ pc = "scan"
    /\ source \in CommentTexts
    /\ scanned = NoScan
    /\ cli = NoCli

ExtractComments == Scanned("extract_comments", extract_comments(source))

NextComments == ExtractComments

SpecComments == InitComments /\ [][NextComments]_vars

---------------------------------------------------------------------------
(* CodeIdentifierExtractor.extract_classes, _extract_methods and           *)
(* extract_functions.  Lines are counted from 0 as in the source, so line  *)
(* i of the source is lines[i + 1] here.  ClassInfo.bases and              *)
(* FunctionInfo.is_async are computed by the source and read by nothing;   *)
(* they are left out of the records.                                       *)

\* str.splitlines(), for texts whose only line break is '\n'
splitlines(content) ==
    LET parts == Split(content, "\n")
    IN  IF parts[Len(parts)] = <<>>
        THEN SubSeq(parts, 1, Len(parts) - 1)
        ELSE parts

Word == [class |-> <<"c", "l", "a", "s", "s">>, def |-> <<"d", "e", "f">>,
         async |-> <<"a", "s", "y", "n", "c">>, arrow |-> <<"-", ">">>]

\* where the lazy \(.*?\) opened at position i closes: the first ')' after
\* it, 0 if there is none
FirstClose(line, i) ==
    IF \E r \in (i + 1)..Len(line) : line[r] = ")"
    THEN CHOOSE r \in (i + 1)..Len(line) :
            line[r] = ")" /\ \A q \in (i + 1)..(r - 1) : line[q] # ")"
    ELSE 0

\* decorator_pattern.match: @(\w+(?:\.\w+)*(?:\(.*?\))?)
RECURSIVE DottedEnd(_, _)
DottedEnd(line, i) ==
    IF /\ i + 1 <= Len(line)
       /\ line[i] = "."
       /\ line[i + 1] \in WordChars
    THEN DottedEnd(line, Past(line, i + 1, WordChars))
    ELSE i

decorator_pattern(line) ==
    IF StartsAt(line, 1, <<"@">>) /\ Past(line, 2, WordChars) > 2
    THEN LET e == DottedEnd(line, Past(line, 2, WordChars))
             r == IF e <= Len(line) /\ line[e] = "("
                  THEN FirstClose(line, e) ELSE 0
         IN  Match(<< SubSeq(line, 2, IF r > 0 THEN r ELSE e - 1) >>)
    ELSE NoMatch

\* class_pattern.match: class\s+(\w+)\s*(?:\((.*?)\))?:
class_pattern(line) ==
    LET b == 1 + Len(Word.class)
        c == Past(line, b, Whitespace)
        d == Past(line, c, WordChars)
        e == Past(line, d, Whitespace)
    IN  IF /\ StartsAt(line, 1, Word.class)
           /\ c > b
           /\ d > c
           /\ \/ StartsAt(line, e, <<":">>)
              \/ /\ StartsAt(line, e, <<"(">>)
                 /\ \E r \in (e + 1)..Len(line) :
                        StartsAt(line, r, <<")", ":">>)
        THEN Match(<< SubSeq(line, c, d - 1) >>)
        ELSE NoMatch

\* a pattern that does not ask for the closing bracket on the line:
\* (?:async\s+)?def\s+(\w+)\s*\(
function_pattern_unclosed(line) ==
    LET a == IF /\ StartsAt(line, 1, Word.async)
                /\ Past(line, 6, Whitespace) > 6
             THEN Past(line, 6, Whitespace) ELSE 1
        b == a + Len(Word.def)
        c == Past(line, b, Whitespace)
        d == Past(line, c, WordChars)
        e == Past(line, d, Whitespace)
    IN  IF /\ StartsAt(line, a, Word.def)
           /\ c > b
           /\ d > c
           /\ StartsAt(line, e, <<"(">>)
        THEN Match(<< SubSeq(line, c, d - 1), <<>>, JNull >>)
        ELSE NoMatch

\* the end of function_pattern from position t on:
\* \s*(?:->\s*([^:]+))?: , with group 3 when the arrow is there
RestOfDef(line, t) ==
    LET u == Past(line, t, Whitespace)
        v == Past(line, u + 2, Whitespace)
        from == IF v <= Len(line) /\ line[v] # ":" THEN v ELSE v - 1
        colon == Past(line, from, Chars \ {":"})
    IN  IF StartsAt(line, u, <<":">>) THEN Match(<< JNull >>)
        ELSE IF /\ StartsAt(line, u, Word.arrow)
                /\ from >= u + 2
                /\ colon > from
                /\ colon <= Len(line)
        THEN Match(<< JStr(SubSeq(line, from, colon - 1)) >>)
        ELSE NoMatch

\* function_pattern.match:
\* (?:async\s+)?def\s+(\w+)\s*\((.*?)\)\s*(?:->\s*([^:]+))?:
function_pattern(line) ==
    LET a == IF /\ StartsAt(line, 1, Word.async)
                /\ Past(line, 6, Whitespace) > 6
             THEN Past(line, 6, Whitespace) ELSE 1
        b == a + Len(Word.def)
        c == Past(line, b, Whitespace)
        d == Past(line, c, WordChars)
        e == Past(line, d, Whitespace)
        closes == {r \in (e + 1)..Len(line) :
                    line[r] = ")" /\ RestOfDef(line, r + 1).matched}
    IN  IF /\ StartsAt(line, a, Word.def)
           /\ c > b
           /\ d > c
           /\ StartsAt(line, e, <<"(">>)
           /\ closes # {}
        THEN LET r == CHOOSE x \in closes : \A y \in closes : x <= y
             IN  Match(<< SubSeq(line, c, d - 1),
                          SubSeq(line, e + 1, r - 1),
                          RestOfDef(line, r + 1).groups[1] >>)
        ELSE NoMatch

\* "Collect decorators": the loop "while line.startswith('@')" begun at
\* line i; gives i, line and decorators as the loop leaves them
RECURSIVE CollectDecorators(_, _, _)
CollectDecorators(lines, i, decorators) ==
    LET line == strip(lines[i + 1])
        found == IF decorator_pattern(line).matched
                 THEN Append(decorators, decorator_pattern(line).groups[1])
                 ELSE decorators
    IN  IF ~StartsAt(line, 1, <<"@">>)
        THEN [i |-> i, line |-> line, decorators |-> decorators]
        ELSE IF i + 1 >= Len(lines)
        THEN [i |-> i + 1, line |-> line, decorators |-> found]
        ELSE CollectDecorators(lines, i + 1, found)

\* the value of a local name that is computed once: Only({e(v) : v \in {x}})
\* is e(x)
Only(S) == CHOOSE v \in S : TRUE

\* the FunctionInfo built from a match of function_pattern
FunctionInfoOf(func_match, decorators) ==
    [name |-> func_match.groups[1],
     parameters |-> _parse_parameters(func_match.groups[2]),
     return_type |-> IF func_match.groups[3] = JNull THEN JNull
                     ELSE JStr(strip(func_match.groups[3].s)),
     decorators |-> decorators]

\* the loop of extract_functions: the test of the stripped line for leading
\* whitespace is part of it
RECURSIVE FunctionLoop(_, _, _)
FunctionLoop(lines, i, functions) ==
    IF i >= Len(lines) THEN functions
    ELSE Only({
        Only({
            FunctionLoop(lines, d.i + 1,
                IF /\ func_match.matched
                   /\ ~StartsAt(d.line, 1, <<" ">>)
                   /\ ~StartsAt(d.line, 1, <<"\t">>)
                THEN Append(functions, FunctionInfoOf(func_match,
                                                      d.decorators))
                ELSE functions) :
            func_match \in {function_pattern(d.line)}}) :
        d \in {CollectDecorators(lines, i, <<>>)}})

extract_functions(content) == FunctionLoop(splitlines(content), 0, <<>>)

\* the loop of _extract_methods
RECURSIVE MethodLoop(_, _, _)
MethodLoop(lines, i, methods) ==
    IF i >= Len(lines) THEN methods
    ELSE Only({
        Only({
            MethodLoop(lines, d.i + 1,
                IF func_match.matched
                THEN Append(methods, FunctionInfoOf(func_match,
                                                    d.decorators))
                ELSE methods) :
            func_match \in {function_pattern(d.line)}}) :
        d \in {CollectDecorators(lines, i, <<>>)}})

_extract_methods(content) == MethodLoop(splitlines(content), 0, <<>>)

\* a body that a blank line ends
InBody_indented_only(line) ==
    StartsAt(line, 1, <<" ">>) \/ StartsAt(line, 1, <<"\t">>)

\* not lines[i].strip() or lines[i].startswith(' ') or
\* lines[i].startswith('\t')
InBody(line) ==
    \/ strip(line) = <<>>
    \/ StartsAt(line, 1, <<" ">>)
    \/ StartsAt(line, 1, <<"\t">>)

\* where the body that begins at line i ends: the first line from i on
\* that is neither blank nor indented, len(lines) if there is none
BodyEnd(lines, i) ==
    CHOOSE j \in i..Len(lines) :
        /\ \A k \in i..(j - 1) : InBody(lines[k + 1])
        /\ j = Len(lines) \/ ~InBody(lines[j + 1])

\* the loop of extract_classes
RECURSIVE ClassLoop(_, _, _)
ClassLoop(lines, i, classes) ==
    IF i >= Len(lines) THEN classes
    ELSE Only({
        Only({
            LET end == BodyEnd(lines, d.i + 1)
                method_lines == SubSeq(lines, d.i + 2, end)
                methods == IF method_lines = <<>> THEN <<>>
                           ELSE _extract_methods(Join(<<"\n">>,
                                                      method_lines))
            IN  IF class_match.matched
                THEN ClassLoop(lines, end + 1,
                        Append(classes, ClassInfo(class_match.groups[1],
                                                  d.decorators, methods)))
                ELSE ClassLoop(lines, d.i + 1, classes) :
            class_match \in {class_pattern(d.line)}}) :
        d \in {CollectDecorators(lines, i, <<>>)}})

extract_classes(content) == ClassLoop(splitlines(content), 0, <<>>)

\* lines of a file with classes, methods and functions
CodeLine ==
    [
      class_A |->
          << "c", "l", "a", "s", "s", " ", "A", ":" >>,
      class_B |->
          << "c", "l", "a", "s", "s", " ", "B", "(", "A", ")", ":" >>,
      method |->
          << " ", " ", " ", " ", "d", "e", "f", " ", "m", "(", "s", "e",
             "l", "f", ")", ":" >>,
      cont |->
          << " ", " ", " ", " ", "p", "a", "s", "s" >>,
      function |->
          << "d", "e", "f", " ", "f", "(", "x", ")", ":" >>,
      decorator |->
          << "@", "d" >>,
      decorator_e |->
          << "@", "e" >>,
      split_def |->
          << " ", " ", " ", " ", "d", "e", "f", " ", "g", "(", "x", "," >>,
      split_rest |->
          << " ", " ", " ", " ", "y", ")", ":" >>,
      blank |->
          <<>> ]

CodeLines == {CodeLine[k] : k \in DOMAIN CodeLine}

\* the texts of up to MaxLines of these lines
CodeTexts ==
    {Join(<<"\n">>, lines) :
        lines \in UNION {[1..n -> CodeLines] : n \in 0..MaxLines}}

\* what the scanners of _process_file_contents return for a text of
\* CodeTexts: it has no import, assignment, comment, log call, integration,
\* version constraint or localization call
ScanOf(content) ==
    Scan(<<>>, extract_classes(content), extract_functions(content), <<>>,
         extract_comments(content))

c_py == <<"c", ".", "p", "y">>

InitIdentifiers ==
    /\ AtRest
    /\ pc = "scan"
    /\ source \in CodeTexts
    /\ scanned = NoScan
    /\ cli = NoCli

ExtractClasses == Scanned("extract_classes", extract_classes(source))

ExtractFunctions == Scanned("extract_functions", extract_functions(source))

\* _process_python_file on a file c.py whose text is source
ProcessPythonFileText ==
    /\ pc = "scan"
    /\ \E d \in {ScanOf(source)} :
         \E S \in {_process_python_file(InitState, NoSeed,
                                          [f \in {c_py} |-> d], c_py)} :
            /\ graph' = S.graph
            /\ stats' = S.stats
    /\ analyzed_files' = {c_py}
    /\ pc' = "processed"
    /\ UNCHANGED <<dir, hashseed, pending, order, todo, call, ncalls,
                   json_file, abbreviations, compressed, runs, source,
                   scanned, cli>>

NextIdentifiers ==
    \/ ExtractClasses
    \/ ExtractFunctions
    \/ ProcessPythonFileText

SpecIdentifiers == InitIdentifiers /\ [][NextIdentifiers]_vars


---------------------------------------------------------------------------
(* The loop of extract_comments, one line per step                        *)

\* lines that open, close and fill docstrings
DocstringLine ==
    [
      double |->
          << " ", " ", " ", " ", "\"", "\"", "\"" >>,
      single |->
          << "'", "'", "'" >>,
      inner |->
          << "x", " ", "=", " ", "\"", "\"", "\"" >>,
      one_line |->
          << " ", " ", " ", " ", "\"", "\"", "\"", "d", "o", "e", "s", " ",
             "f", "o", "o", "\"", "\"", "\"" >>,
      def_foo |->
          << "d", "e", "f", " ", "f", "o", "o", "(", "x", ")", ":" >>,
      todo |->
          << "x", " ", "=", " ", "1", " ", " ", "#", " ", "T", "O", "D",
             "O", " ", "a" >>,
      plain |->
          << "#", " ", "a" >> ]

DocstringLines == {DocstringLine[k] : k \in DOMAIN DocstringLine}

\* the texts of up to MaxLines of these lines
DocstringTexts ==
    {Join(<<"\n">>, lines) :
        lines \in UNION {[1..n -> DocstringLines] : n \in 0..MaxLines}}

\* the loop "for idx, line in enumerate(lines)" before its pass idx
Loop(idx, v) == [op |-> "for", out |-> [idx |-> idx, v |-> v]]

InitDocstrings ==
    /\ AtRest
    /\ pc = "scan"
    /\ source \in DocstringTexts
    /\ scanned = Loop(0, ScanStart)
    /\ cli = NoCli

\* one pass of the loop
ScanNextLine ==
    /\ pc = "scan"
    /\ scanned.op = "for"
    /\ scanned.out.idx < Len(Split(source, "\n"))
    /\ scanned' = Loop(scanned.out.idx + 1,
                       ScanLine(scanned.out.v, Split(source, "\n"),
                                scanned.out.idx))
    /\ UNCHANGED <<dir, hashseed, pc, pending, order, graph, stats,
                   analyzed_files, todo, call, ncalls, json_file,
                   abbreviations, compressed, runs, source, cli>>

\* return comments
ReturnComments ==
    /\ pc = "scan"
    /\ scanned.op = "for"
    /\ scanned.out.idx = Len(Split(source, "\n"))
    /\ scanned' = [op |-> "extract_comments",
                   out |-> scanned.out.v.comments]
    /\ UNCHANGED <<dir, hashseed, pc, pending, order, graph, stats,
                   analyzed_files, todo, call, ncalls, json_file,
                   abbreviations, compressed, runs, source, cli>>

NextDocstrings ==
    \/ ScanNextLine
    \/ ReturnComments

SpecDocstrings == InitDocstrings /\ [][NextDocstrings]_vars

---------------------------------------------------------------------------
(* The while loops of extract_classes, _extract_methods and               *)
(* extract_functions and the for loop of extract_comments, one test or    *)
(* block of statements per step; pc is the place of the scanner in its    *)
(* loop.  A scanner that is called runs on until it returns or raises:    *)
(* its program counter does not stand still for ever.                     *)

Scanners == {"extract_classes", "_extract_methods", "extract_functions"}

LoopLines ==
    {CodeLine.class_A, CodeLine.method, CodeLine.function,
     CodeLine.decorator, CodeLine.split_def, CodeLine.blank}

\* the texts of up to MaxLines of these lines
LoopTexts ==
    {Join(<<"\n">>, lines) :
        lines \in UNION {[1..n -> LoopLines] : n \in 0..MaxLines}}

\* the places of a scanner that runs, and all of them
Running ==
    {"call", "while", "decorators", "decorator", "match", "for", "body"}

Places == Running \cup {"returned", "IndexError"}

\* lines[i]: IndexError past the last line
Subscript(lines, i) ==
    IF i < Len(lines) THEN [raised |-> FALSE, value |-> lines[i + 1]]
    ELSE [raised |-> TRUE, value |-> <<>>]

\* a decorator loop that reads the next line without a look at the index
AtEnd_unchecked(lines, i) == FALSE

\* if i >= len(lines): break
AtEnd(lines, i) == i >= Len(lines)

\* the local variables of a scanner in its while loop
While(scanner, i, line, decorators, found) ==
    [op |-> "while",
     out |-> [scanner |-> scanner, i |-> i, line |-> line,
              decorators |-> decorators, found |-> found]]

InitLoops ==
    /\ AtRest
    /\ pc = "call"
    /\ source = <<>>
    /\ scanned = NoScan
    /\ cli = NoCli

\* a step of a scanner at a place of its loop
At(place) ==
    /\ pc = place
    /\ UNCHANGED <<dir, hashseed, pending, order, graph, stats,
                   analyzed_files, todo, call, ncalls, json_file,
                   abbreviations, compressed, runs, cli>>

\* a scanner is called with a text
CallScanner ==
    /\ At("call")
    /\ \/ /\ source' \in LoopTexts
          /\ \E scanner \in Scanners :
                scanned' = While(scanner, 0, <<>>, <<>>, <<>>)
          /\ pc' = "while"
       \/ /\ source' \in DocstringTexts
          /\ scanned' = Loop(0, ScanStart)
          /\ pc' = "for"

\* while i < len(lines): line = lines[i].strip(); decorators = []
EnterLoopBody ==
    /\ At("while")
    /\ scanned.out.i < Len(splitlines(source))
    /\ \E w \in {scanned.out} :
         \E read \in {Subscript(splitlines(source), w.i)} :
            /\ scanned' = While(w.scanner, w.i, strip(read.value), <<>>,
                                w.found)
            /\ pc' = IF read.raised THEN "IndexError" ELSE "decorators"
    /\ UNCHANGED source

\* while line.startswith('@')
TestDecorator ==
    /\ At("decorators")
    /\ pc' = IF StartsAt(scanned.out.line, 1, <<"@">>) THEN "decorator"
             ELSE "match"
    /\ UNCHANGED <<source, scanned>>

\* the body of the decorator loop: a match is appended, i += 1, break at
\* the end of the text, line = lines[i].strip()
DecoratorLoopBody ==
    /\ At("decorator")
    /\ \E w \in {scanned.out} :
         \E read \in {Subscript(splitlines(source), w.i + 1)},
            decorators \in {IF decorator_pattern(w.line).matched
                            THEN Append(w.decorators,
                                        decorator_pattern(w.line).groups[1])
                            ELSE w.decorators} :
            IF AtEnd(splitlines(source), w.i + 1)
            THEN /\ scanned' = While(w.scanner, w.i + 1, w.line,
                                     decorators, w.found)
                 /\ pc' = "match"
            ELSE /\ scanned' = While(w.scanner, w.i + 1, strip(read.value),
                                     decorators, w.found)
                 /\ pc' = IF read.raised THEN "IndexError"
                          ELSE "decorators"
    /\ UNCHANGED source

\* the class found at line i with the methods of its body, and the index
\* the body loops leave
ClassAt(lines, i, class_match, decorators) ==
    LET end == BodyEnd(lines, i + 1)
        method_lines == SubSeq(lines, i + 2, end)
    IN  [i |-> end,
         info |-> ClassInfo(class_match.groups[1], decorators,
                            IF method_lines = <<>> THEN <<>>
                            ELSE _extract_methods(Join(<<"\n">>,
                                                       method_lines)))]

\* "Match class definition" or "Match function definition", the if
\* statement after it, and i += 1
MatchHeader ==
    /\ At("match")
    /\ \E w \in {scanned.out} :
        \E class_match \in {class_pattern(w.line)},
           func_match \in {function_pattern(w.line)} :
            scanned' =
              IF w.scanner = "extract_classes"
              THEN IF class_match.matched
                   THEN LET c == ClassAt(splitlines(source), w.i,
                                         class_match, w.decorators)
                        IN  While(w.scanner, c.i + 1, w.line, w.decorators,
                                  Append(w.found, c.info))
                   ELSE While(w.scanner, w.i + 1, w.line, w.decorators,
                              w.found)
              ELSE IF /\ func_match.matched
                      /\ \/ w.scanner = "_extract_methods"
                         \/ /\ ~StartsAt(w.line, 1, <<" ">>)
                            /\ ~StartsAt(w.line, 1, <<"\t">>)
              THEN While(w.scanner, w.i + 1, w.line, w.decorators,
                         Append(w.found,
                                FunctionInfoOf(func_match, w.decorators)))
              ELSE While(w.scanner, w.i + 1, w.line, w.decorators, w.found)
    /\ pc' = "while"
    /\ UNCHANGED source

\* return classes, return methods, return functions
ReturnFound ==
    /\ At("while")
    /\ scanned.out.i >= Len(splitlines(source))
    /\ scanned' = [op |-> scanned.out.scanner, out |-> scanned.out.found]
    /\ pc' = "returned"
    /\ UNCHANGED source

\* for idx, line in enumerate(lines)
NextLineOfText ==
    /\ At("for")
    /\ scanned.out.idx < Len(Split(source, "\n"))
    /\ pc' = "body"
    /\ UNCHANGED <<source, scanned>>

\* the body of the for loop
ScanLineOfText ==
    /\ At("body")
    /\ scanned' = Loop(scanned.out.idx + 1,
                       ScanLine(scanned.out.v, Split(source, "\n"),
                                scanned.out.idx))
    /\ pc' = "for"
    /\ UNCHANGED source

\* return comments, after the last line
ReturnCommentsOfText ==
    /\ At("for")
    /\ scanned.out.idx = Len(Split(source, "\n"))
    /\ scanned' = [op |-> "extract_comments",
                   out |-> scanned.out.v.comments]
    /\ pc' = "returned"
    /\ UNCHANGED source

NextLoops ==
    \/ CallScanner
    \/ EnterLoopBody
    \/ TestDecorator
    \/ DecoratorLoopBody
    \/ MatchHeader
    \/ ReturnFound
    \/ NextLineOfText
    \/ ScanLineOfText
    \/ ReturnCommentsOfText

\* the program counter of a scanner that runs moves on
Proceed == pc \in Running /\ pc' \in Places

SpecLoops == InitLoops /\ [][NextLoops]_vars /\ WF_pc(Proceed)

---------------------------------------------------------------------------
(* _process_codebase on a directory that holds a message catalogue x.po   *)
(* beside its Python files: os.walk hands the files over in any order.    *)

InitWalk ==
    /\ dir \in Directories
    /\ hashseed = NoSeed
    /\ pc = "analyze"
    /\ pending = PyFiles \cup {x_po}
    /\ order = <<>>
    /\ graph = EmptyGraph
    /\ stats = InitStats
    /\ analyzed_files = {}
    /\ todo = <<>>
    /\ call = NoCall
    /\ ncalls = 0
    /\ json_file = NoFile
    /\ abbreviations = <<>>
    /\ compressed = <<>>
    /\ runs = <<>>
    /\ source = <<>>
    /\ scanned = NoScan
    /\ cli = NoCli

\* _process_codebase reaches a .po or .mo file: _process_localization_file
ProcessLocalizationFile ==
    /\ pc = "analyze"
    /\ todo = <<>>
    /\ \E f \in pending \ PyFiles :
        /\ pending' = pending \ {f}
        /\ order' = Append(order, f)
        /\ \E S \in {_process_localization_file(S0, f)} :
            /\ graph' = S.graph
            /\ stats' = S.stats
        /\ call' = Called(graph, hashseed, Op("localization_file", <<>>, f))
    /\ UNCHANGED <<dir, hashseed, pc, analyzed_files, todo, ncalls,
                   json_file, abbreviations, compressed, runs, source,
                   scanned, cli>>

NextWalk ==
    \/ ProcessPythonFile
    \/ ProcessLocalizationFile
    \/ AddImportNode
    \/ AddClassNode
    \/ AddAnnotationNode
    \/ AddMethodNode
    \/ AddFunctionNode
    \/ AddVariableNode
    \/ AddCommentNode
    \/ SaveGraph

SpecWalk == InitWalk /\ [][NextWalk]_vars

---------------------------------------------------------------------------
(* analyze_codebase on files whose classes A and B each have a method m,  *)
(* with parameter x in A and y in B.                                      *)

\* class A: / def m(x): / pass
KA ==
    Scan(<<>>,
         << ClassInfo(<<"A">>, <<>>,
                      << FunctionInfo(<<"m">>, << Parameter(<<"x">>) >>) >>) >>,
         << FunctionInfo(<<"m">>, << Parameter(<<"x">>) >>) >>,
         <<>>, <<>>)

\* class B: / def m(y): / pass
KB ==
    Scan(<<>>,
         << ClassInfo(<<"B">>, <<>>,
                      << FunctionInfo(<<"m">>, << Parameter(<<"y">>) >>) >>) >>,
         << FunctionInfo(<<"m">>, << Parameter(<<"y">>) >>) >>,
         <<>>, <<>>)

\* class B: / def m(y): / pass / #a / class A: / def m(x): / pass
KBA ==
    Scan(<<>>,
         << ClassInfo(<<"B">>, <<>>,
                      << FunctionInfo(<<"m">>, << Parameter(<<"y">>) >>) >>),
            ClassInfo(<<"A">>, <<>>,
                      << FunctionInfo(<<"m">>, << Parameter(<<"x">>) >>) >>) >>,
         << FunctionInfo(<<"m">>, << Parameter(<<"y">>) >>),
            FunctionInfo(<<"m">>, << Parameter(<<"x">>) >>) >>,
         <<>>,
         << CommentInfo(<<"#", "a">>, 4) >>)

SharedMethodDirectories == [PyFiles -> {KA, KB, KBA}]

InitSharedMethod ==
    /\ dir \in SharedMethodDirectories
    /\ hashseed = NoSeed
    /\ pc = "analyze"
    /\ pending = PyFiles
    /\ order = <<>>
    /\ graph = EmptyGraph
    /\ stats = InitStats
    /\ analyzed_files = {}
    /\ todo = <<>>
    /\ call = NoCall
    /\ ncalls = 0
    /\ json_file = NoFile
    /\ abbreviations = <<>>
    /\ compressed = <<>>
    /\ runs = <<>>
    /\ source = <<>>
    /\ scanned = NoScan
    /\ cli = NoCli

NextSharedMethod ==
    \/ ProcessPythonFile
    \/ AddClassNode
    \/ AddMethodNode
    \/ AddFunctionNode
    \/ AddCommentNode
    \/ SaveGraph

SpecSharedMethod == InitSharedMethod /\ [][NextSharedMethod]_vars

---------------------------------------------------------------------------
(* analyze_codebase called more than once on one PythonCodeKnowledgeGraph, *)
(* on a directory in which files may fail to be read and the contents of a *)
(* file may fail to be processed: the walk of the second call reaches the  *)
(* files of the first one again, with analyzed_files as the first call     *)
(* left it. ncalls counts the calls after the first.                       *)

MaxAnalyses == 2

InitReanalysis ==
    /\ dir \in FaultyDirectories
    /\ hashseed = NoSeed
    /\ pc = "analyze"
    /\ pending = PyFiles
    /\ order = <<>>
    /\ graph = EmptyGraph
    /\ stats = InitStats
    /\ analyzed_files = {}
    /\ todo = <<>>
    /\ call = NoCall
    /\ ncalls = 0
    /\ json_file = NoFile
    /\ abbreviations = <<>>
    /\ compressed = <<>>
    /\ runs = <<>>
    /\ source = <<>>
    /\ scanned = NoScan
    /\ cli = NoCli

\* analyze_codebase() once more, after the walk of the call before it ended
AnalyzeCodebaseAgain ==
    /\ pc = "analyze"
    /\ pending = {}
    /\ todo = <<>>
    /\ ncalls + 1 < MaxAnalyses
    /\ ncalls' = ncalls + 1
    /\ pending' = PyFiles
    /\ call' = NoCall
    /\ UNCHANGED <<dir, hashseed, pc, order, graph, stats, analyzed_files,
                   todo, json_file, abbreviations, compressed, runs, source,
                   scanned, cli>>

NextReanalysis ==
    \/ ProcessPythonFile
    \/ AddImportNode
    \/ AddClassNode
    \/ AddAnnotationNode
    \/ AddMethodNode
    \/ AddFunctionNode
    \/ AddVariableNode
    \/ AddCommentNode
    \/ RaiseInFileContents
    \/ AnalyzeCodebaseAgain
    \/ SaveGraph

SpecReanalysis == InitReanalysis /\ [][NextReanalysis]_vars

---------------------------------------------------------------------------
(* Claims *)

AddOps ==
    {"import", "class", "annotation", "method", "function", "variable",
     "comment"}

Count(G, n) == Cardinality({i \in 1..Len(G.nodes) : G.nodes[i] = n})

\* C1: a typed add operation applied to an id that is already in the graph
\* leaves the node set as it was, leaves exactly one node with that id, and
\* changes no attribute of any node: nothing is overwritten or merged.
C1_UpsertIdempotent ==
    [][(call'.op \in AddOps /\ has_node(graph, call'.id)) =>
            /\ graph'.nodes = graph.nodes
            /\ Count(graph', call'.id) = 1
            /\ graph'.attr = graph.attr]_vars

\* a function add has just met a node of its id that the other file made
\* with another parameter list
C1_Witness ==
    /\ call.op = "function"
    /\ call.existed
    /\ call.id = Prefix.Function \o <<"f">>
    /\ {dir[f] : f \in PyFiles} = {K1, K2}

PairCount(G, u, v) ==
    Cardinality({i \in 1..Len(G.edges) :
                    G.edges[i].source = u /\ G.edges[i].target = v})

\* C2: the graph holds at most one edge per (source, target); an add
\* operation that inserts an edge leaves exactly one edge for its pair,
\* carrying the relation just inserted (the same relation again changes
\* nothing, another relation replaces the old one), and leaves the other
\* pairs' edges alone.
C2_SimpleDigraph ==
    [][/\ \A i, j \in 1..Len(graph'.edges) :
            (/\ graph'.edges[i].source = graph'.edges[j].source
             /\ graph'.edges[i].target = graph'.edges[j].target) => i = j
       /\ call'.edged =>
            /\ PairCount(graph', call'.edge.source, call'.edge.target) = 1
            /\ call'.edge \in EdgeSet(graph')
            /\ \A e \in EdgeSet(graph) :
                    (e.source # call'.edge.source
                        \/ e.target # call'.edge.target)
                        => e \in EdgeSet(graph')
            /\ has_edge(graph, call'.edge.source, call'.edge.target)
                    => Len(graph'.edges) = Len(graph.edges)]_vars

\* an edge has just been inserted for a pair that carried another relation
C2_Witness ==
    /\ call.edged
    /\ call.before # <<>>
    /\ call.before # call.edge.relation
    /\ PairCount(graph, call.edge.source, call.edge.target) = 1

ClassNames(content) ==
    {content.classes[i].name : i \in 1..Len(content.classes)}

MethodNames(content, class_name) ==
    UNION {{content.classes[i].methods[j].name :
                j \in 1..Len(content.classes[i].methods)} :
           i \in {k \in 1..Len(content.classes) :
                    content.classes[k].name = class_name}}

\* C3: when two files each define a class of one name, the finished graph
\* has exactly one node for the class, a DEFINES edge to it from each of
\* the two File nodes, and a HAS_METHOD edge from it to the Method node of
\* every method of either file's class body.
C3_MergeByName ==
    AnalysisDone =>
        \A f, g \in PyFiles :
            f # g =>
                \A c \in ClassNames(dir[f]) \cap ClassNames(dir[g]) :
                    /\ Count(graph, Prefix.Class \o c) = 1
                    /\ Link(FileNode(f), Prefix.Class \o c, Rel.DEFINES)
                            \in EdgeSet(graph)
                    /\ Link(FileNode(g), Prefix.Class \o c, Rel.DEFINES)
                            \in EdgeSet(graph)
                    /\ \A m \in MethodNames(dir[f], c)
                                    \cup MethodNames(dir[g], c) :
                            /\ has_node(graph, Prefix.Method \o m)
                            /\ Link(Prefix.Class \o c, Prefix.Method \o m,
                                    Rel.HAS_METHOD)
                                    \in EdgeSet(graph)

\* both files define class A, one with method m and one with method n, and
\* the analysis is over
C3_Witness ==
    /\ AnalysisDone
    /\ pc = "analyze"
    /\ \E f, g \in PyFiles : dir[f] = K1 /\ dir[g] = K2
    /\ Count(graph, Prefix.Class \o <<"A">>) = 1
    /\ has_edge(graph, Prefix.Class \o <<"A">>, Prefix.Method \o <<"m">>)
    /\ has_edge(graph, Prefix.Class \o <<"A">>, Prefix.Method \o <<"n">>)

\* the comments the scanners found, each with the file it is in
FileComments ==
    UNION {{[file |-> f, comment |-> dir[f].comments[i]] :
                i \in 1..Len(dir[f].comments)} : f \in PyFiles}

CommentNodes(G) ==
    {n \in NodeSet(G) :
        /\ HasKey(NodeAttr(G, n), Key.type)
        /\ Get(NodeAttr(G, n), Key.type) = JStr(Type.comment)}

\* C4: a comment's node is identified by its line number and the hash of
\* its content, without the file: comments of two files with the same
\* content on the same line share one node that has a HAS_COMMENT edge from
\* each file, and comments that differ in line number or in content hash
\* have distinct nodes.
C4_CommentIdentity ==
    AnalysisDone =>
        /\ \A x, y \in FileComments :
            LET nx == CommentId(hashseed.hash, x.comment)
                ny == CommentId(hashseed.hash, y.comment)
            IN  /\ Count(graph, nx) = 1
                /\ Link(FileNode(x.file), nx, Rel.HAS_COMMENT)
                        \in EdgeSet(graph)
                /\ (/\ x.comment.content = y.comment.content
                    /\ x.comment.line_number = y.comment.line_number)
                        => nx = ny
                /\ (\/ x.comment.line_number # y.comment.line_number
                    \/ hashseed.hash[x.comment.content]
                            # hashseed.hash[y.comment.content])
                        => nx # ny
        /\ Cardinality(CommentNodes(graph))
                = Cardinality({<<x.comment.line_number,
                                 hashseed.hash[x.comment.content]>> :
                                    x \in FileComments})

\* both files have the comment #a on line 1 and its one node has an edge
\* from each; the comment #b on line 8 has a node of its own
C4_Witness ==
    /\ AnalysisDone
    /\ pc = "analyze"
    /\ \E f, g \in PyFiles : dir[f] = K1 /\ dir[g] = K2
    /\ \E n \in CommentNodes(graph) :
            \A f \in PyFiles : Link(FileNode(f), n, Rel.HAS_COMMENT)
                                    \in EdgeSet(graph)
    /\ Cardinality(CommentNodes(graph)) = 2

TwoRuns == Len(runs) = 2

\* C5: two complete runs on the unchanged directory, walking it in the
\* same order, write the same graph JSON (metadata included) and the same
\* compressed text, whatever the hash seed and the wall clock of each run.
C5_Determinism ==
    (TwoRuns /\ runs[1].walk = runs[2].walk) =>
        /\ runs[1].json = runs[2].json
        /\ Compress(runs[1].json) = Compress(runs[2].json)

JsonNodes(kg) == Range(kg.graph.nodes)

JsonIds(kg) == NodeIds(kg.graph.nodes)

JsonLinks(kg) == Range(kg.graph.links)

JsonNode(kg, id) == kg.graph.nodes[IdIndex(kg.graph.nodes, id)]

SameProcessConditions == TwoRuns /\ runs[1].seed = runs[2].seed

\* C6 as stated: for one hash seed, the files processed in any two orders
\* give the same node set, the same attributes on every node and the same
\* edge set with the same relations.
C6_OrderCommutes ==
    SameProcessConditions =>
        /\ JsonNodes(runs[1].json) = JsonNodes(runs[2].json)
        /\ JsonLinks(runs[1].json) = JsonLinks(runs[2].json)

\* the add operations of a whole run, in order
AllCalls(seed, walk) ==
    Flatten([i \in 1..Len(walk) |->
        _process_file_contents(seed, FileNode(walk[i]), dir[walk[i]])])

\* the attributes an add operation gives the node it creates
CallAttrs(seed, c) ==
    NodeAttr(Apply(InitState, seed, c).graph, CallId(seed, c))

\* the attributes carried by the facts for id among calls
FactAttrs(seed, calls, id) ==
    {CallAttrs(seed, calls[i]) :
        i \in {k \in 1..Len(calls) : CallId(seed, calls[k]) = id}}

FirstFact(seed, calls, id) ==
    calls[CHOOSE i \in 1..Len(calls) :
        /\ CallId(seed, calls[i]) = id
        /\ \A j \in 1..(i - 1) : CallId(seed, calls[j]) # id]

\* C6 amended: for one hash seed, the files processed in any two orders
\* give the same node ids and the same edge set with the same relations;
\* every node made by an add operation has the attributes of the first
\* fact inserted for its id in that order, so its attributes are the same
\* in both orders when all the facts for its id carry the same attributes.
C6_OrderCommutesUpToFirstWins ==
    SameProcessConditions =>
        LET seed == runs[1].seed
            calls == [r \in 1..2 |-> AllCalls(seed, runs[r].walk)]
        IN  /\ JsonIds(runs[1].json) = JsonIds(runs[2].json)
            /\ JsonLinks(runs[1].json) = JsonLinks(runs[2].json)
            /\ \A id \in JsonIds(runs[1].json) :
                LET facts == FactAttrs(seed, calls[1], id)
                IN  IF facts = {}
                    THEN JsonNode(runs[1].json, id)
                            = JsonNode(runs[2].json, id)
                    ELSE /\ \A r \in 1..2 :
                                JsonNode(runs[r].json, id) =
                                    CallAttrs(seed,
                                        FirstFact(seed, calls[r], id))
                         /\ Cardinality(facts) = 1
                                => JsonNode(runs[1].json, id)
                                        = JsonNode(runs[2].json, id)

\* two runs under one seed in different orders, on files that both define
\* a function f with different parameter lists, end with different
\* attributes on the node of f
C6_Witness ==
    /\ SameProcessConditions
    /\ runs[1].walk # runs[2].walk
    /\ Prefix.Function \o <<"f">> \in JsonIds(runs[1].json)
    /\ JsonNode(runs[1].json, Prefix.Function \o <<"f">>)
            # JsonNode(runs[2].json, Prefix.Function \o <<"f">>)

Abbreviated == pc \in {"abbreviated", "done", "KeyError"}

DigitValue(c) == CHOOSE d \in 0..9 : Digits[d + 1] = c

RECURSIVE ParseNat(_)
ParseNat(s) ==
    IF s = <<>> THEN 0
    ELSE 10 * ParseNat(SubSeq(s, 1, Len(s) - 1)) + DigitValue(s[Len(s)])

\* the n of a surrogate Tn
SurrogateIndex(abbr) == ParseNat(Tail(abbr))

\* C7: surrogates are assigned in ascending code-point order of the terms:
\* of two terms the lesser has the lesser index; and the assignment depends
\* on the set of terms only, so every graph file with the same terms, in
\* whatever order its nodes and links come, gets the same assignment.
C7_SortedAssignment ==
    Abbreviated =>
        /\ \A i, j \in 1..Len(abbreviations) :
            StrLess(abbreviations[i].term, abbreviations[j].term)
                => SurrogateIndex(abbreviations[i].abbr)
                        < SurrogateIndex(abbreviations[j].abbr)
        /\ \A kg \in JsonFiles :
            unique_terms(kg) = unique_terms(json_file)
                => generate_abbreviations(kg) = abbreviations

\* a graph of three nodes and more than nine terms has its codebook, and
\* another order of its nodes is among the files
C7_Witness ==
    /\ pc = "abbreviated"
    /\ Len(json_file.graph.nodes) = 3
    /\ Len(abbreviations) > 9
    /\ \E kg \in JsonFiles :
        /\ kg # json_file
        /\ unique_terms(kg) = unique_terms(json_file)

\* C8: the codebook is a bijection between the distinct terms and the
\* surrogates T1..Tn: it has one entry per distinct term, no term and no
\* surrogate occurs twice, and the indices are exactly 1..n.
C8_CodebookBijection ==
    Abbreviated =>
        LET n == Cardinality(unique_terms(json_file))
        IN  /\ Len(abbreviations) = n
            /\ Keys(abbreviations) = unique_terms(json_file)
            /\ \A i, j \in 1..Len(abbreviations) :
                (\/ abbreviations[i].term = abbreviations[j].term
                 \/ abbreviations[i].abbr = abbreviations[j].abbr) => i = j
            /\ \A i \in 1..Len(abbreviations) :
                /\ Head(abbreviations[i].abbr) = "T"
                /\ abbreviations[i].abbr
                    = <<"T">> \o NatStr(SurrogateIndex(abbreviations[i].abbr))
            /\ {SurrogateIndex(abbreviations[i].abbr) :
                    i \in 1..Len(abbreviations)} = 1..n

\* the codebook of a graph in which the term x occurs in two nodes
C8_Witness ==
    /\ pc = "abbreviated"
    /\ FunctionNode \in Range(json_file.graph.nodes)
    /\ DocstringNode \in Range(json_file.graph.nodes)
    /\ <<"x">> \in Keys(abbreviations)
    /\ Len(abbreviations) > 1

\* reading the compressed text back: its lines, and the codebook entries
\* "# <surrogate>:<term>" among them
Breaks(text) ==
    {0, Len(text) + 1} \cup {i \in 1..Len(text) : text[i] = "\n"}

LineAt(text, b) ==
    LET e == CHOOSE x \in Breaks(text) :
                /\ x > b
                /\ \A y \in Breaks(text) : y > b => x <= y
    IN  SubSeq(text, b + 1, e - 1)

TextLines(text) == {LineAt(text, b) : b \in Breaks(text) \ {Len(text) + 1}}

IsEntry(line) ==
    /\ Len(line) > 2
    /\ line[1] = "#"
    /\ line[2] = " "
    /\ \E p \in 3..Len(line) : line[p] = ":"

EntryColon(line) ==
    CHOOSE p \in 3..Len(line) :
        /\ line[p] = ":"
        /\ \A q \in 3..(p - 1) : line[q] # ":"

DecodedTerms(text, abbr) ==
    {SubSeq(line, EntryColon(line) + 1, Len(line)) :
        line \in {l \in TextLines(text) :
                    /\ IsEntry(l)
                    /\ SubSeq(l, 3, EntryColon(l) - 1) = abbr}}

\* C9: every surrogate used in a node or link line, nested ones included,
\* maps back through the codebook of the compressed text to the term it
\* stands for.
C9_RoundTrip ==
    pc = "done" =>
        \A term \in StrictLookups(json_file) \cup FallbackLookups(json_file) :
            DecodedTerms(compressed, LookupOr(abbreviations, term)) = {term}

\* C10: every string that serialization looks up in the codebook was
\* harvested into it: no abbreviations[...] raises KeyError, and
\* abbreviate_value never falls back to the literal string.
C10_HarvestComplete ==
    /\ pc # "KeyError"
    /\ Abbreviated =>
        /\ StrictLookups(json_file) \subseteq Keys(abbreviations)
        /\ FallbackLookups(json_file) \subseteq Keys(abbreviations)

\* a graph with nested parameters, an int, a null and a link has been
\* serialized
C10_Witness ==
    /\ pc = "done"
    /\ FunctionNode \in Range(json_file.graph.nodes)
    /\ json_file.graph.links # <<>>
    /\ Key.default \in StrictLookups(json_file)
    /\ <<"N", "o", "n", "e">> \in FallbackLookups(json_file)

\* the layout of the lines of a compressed text for a graph file
Layout(text, kg, abbrs) ==
    LET lines == Split(text, "\n")
        head == Split(Instructions, "\n")
        h == Len(head)
        c == Len(abbrs)
        nodes == kg.graph.nodes
        n == Len(nodes)
        links == kg.graph.links
    IN  /\ Len(lines) = h + c + n + Len(links)
        /\ SubSeq(lines, 1, h) = head
        /\ \A e \in Range(abbrs) :
             Cardinality({i \in 1..c :
                lines[h + i] = <<"#", " ">> \o e.abbr \o <<":">> \o e.term})
                = 1
        /\ \A i \in 1..n :
             LET fields == Split(lines[h + c + i], "|")
                 items == NodeAttrItems(nodes[i])
                 attrs == IF fields[3] = <<>> THEN <<>>
                          ELSE Split(fields[3], ";")
             IN  /\ Len(fields) = 3
                 /\ fields[1] = <<"N">>
                 /\ fields[2] = Lookup(abbrs, PyStr(Get(nodes[i], Key.id)))
                 /\ Len(attrs) = Len(items)
                 /\ Len(items) = Len(nodes[i]) - 1
                 /\ \A j \in 1..Len(items) :
                      /\ items[j].k # Key.id
                      /\ Split(attrs[j], "=")
                            = << Lookup(abbrs, items[j].k),
                                 abbreviate_value(items[j].v, abbrs) >>
        /\ \A i \in 1..Len(links) :
             Split(lines[h + c + n + i], "|")
                = << <<"L">>, Lookup(abbrs, links[i].source),
                     Lookup(abbrs, links[i].relation),
                     Lookup(abbrs, links[i].target) >>

\* C11: the compressed text is the header block, then one
\* "# <surrogate>:<term>" line for each codebook entry, then one "N|..."
\* line for each node in node order, listing the node's attributes in the
\* node's own order without the id key, then one
\* "L|<source>|<relation>|<target>" line for each link in link order.
C11_TextLayout ==
    pc = "done" => Layout(compressed, json_file, abbreviations)

\* the layout holds for every graph file in which no term has a line break
C11_LayoutWithoutLineBreaks ==
    (pc = "done" /\ DocstringNode \notin Range(json_file.graph.nodes))
        => Layout(compressed, json_file, abbreviations)

\* brackets opened and not closed before position i of s
Depth(s, i) ==
    Cardinality({j \in 1..(i - 1) : s[j] \in Opens})
        - Cardinality({j \in 1..(i - 1) : s[j] \in Closes})

Closer(open) == IF open = "(" THEN ")" ELSE IF open = "[" THEN "]" ELSE "}"

\* every bracket of s closes the bracket opened last
RECURSIVE Nested(_, _)
Nested(s, stack) ==
    IF s = <<>> THEN stack = <<>>
    ELSE IF Head(s) \in Opens
    THEN Nested(Tail(s), <<Closer(Head(s))>> \o stack)
    ELSE IF Head(s) \in Closes
    THEN /\ stack # <<>>
         /\ Head(stack) = Head(s)
         /\ Nested(Tail(s), Tail(stack))
    ELSE Nested(Tail(s), stack)

Balanced(s) == Nested(s, <<>>)

DepthZeroCommas(s) == {i \in 1..Len(s) : s[i] = "," /\ Depth(s, i) = 0}

\* the segments of s between neighbouring depth-zero commas that hold more
\* than whitespace, each as <<position before, position after>>
Segments(s) ==
    LET cuts == DepthZeroCommas(s) \cup {0, Len(s) + 1}
    IN  {seg \in cuts \X cuts :
            /\ seg[1] < seg[2]
            /\ \A c \in cuts : ~(seg[1] < c /\ c < seg[2])
            /\ strip(SubSeq(s, seg[1] + 1, seg[2] - 1)) # <<>>}

\* C12: for a bracket-balanced parameter string, _parse_parameters returns
\* one parameter for each non-blank segment between commas at bracket depth
\* zero; a comma inside a bracket pair starts no parameter.
C12_DepthAwareSplit ==
    (scanned.op = "_parse_parameters" /\ Balanced(source)) =>
        /\ Len(scanned.out) = Cardinality(Segments(source))
        /\ Len(scanned.out) <= Cardinality(DepthZeroCommas(source)) + 1

\* a balanced string with a comma inside brackets and a comma outside has
\* been parsed into two parameters
C12_Witness ==
    /\ scanned.op = "_parse_parameters"
    /\ Balanced(source)
    /\ \E i \in 1..Len(source) : source[i] = "," /\ Depth(source, i) > 0
    /\ DepthZeroCommas(source) # {}
    /\ Len(scanned.out) = 2

\* position of the first sep in s, Len(s) + 1 if there is none
First(s, sep) ==
    IF \E i \in 1..Len(s) : s[i] = sep
    THEN CHOOSE i \in 1..Len(s) :
            s[i] = sep /\ \A j \in 1..(i - 1) : s[j] # sep
    ELSE Len(s) + 1

\* name, type hint and default of a segment with a ':', read as the text
\* before the first ':', the text from there to the '=' that follows, and
\* all the text after that '='
TypedParameter(segment) ==
    LET colon == First(segment, ":")
        rest == SubSeq(segment, colon + 1, Len(segment))
        eq == First(rest, "=")
    IN  [name |-> JStr(strip(SubSeq(segment, 1, colon - 1))),
         type_hint |-> JStr(strip(SubSeq(rest, 1, eq - 1))),
         default_value |->
            IF eq <= Len(rest)
            THEN JStr(strip(SubSeq(rest, eq + 1, Len(rest))))
            ELSE JNull]

\* {"a": 1}
DictDefault == SubSeq(TypedDefaults, 21, 28)

\* C13: a parameter segment with a ':' is parsed into the name before the
\* first ':', the type hint between that ':' and the '=' after it, and as
\* default the complete text after that '=', also when the default has a
\* ':' or '=' of its own; x: Dict[str, int] = {"a": 1}, y: int = 2 gives
\* two parameters, the first x with type hint Dict[str, int] and default
\* {"a": 1}.
C13_PerParameterParse ==
    scanned.op = "_parse_parameters" =>
        /\ (/\ strip(source) # <<>>
            /\ \A i \in 1..Len(source) : source[i] # ","
            /\ \E i \in 1..Len(source) : source[i] = ":")
                => scanned.out = <<TypedParameter(source)>>
        /\ source = TypedDefaults =>
            /\ Len(scanned.out) = 2
            /\ scanned.out[1] =
                [name |-> JStr(<<"x">>),
                 type_hint |-> JStr(SubSeq(TypedDefaults, 4, 17)),
                 default_value |-> JStr(DictDefault)]

\* the parse agrees with that reading whenever the text after the first
\* ':' has no second ':' and at most one '='
C13_ParseOfPlainDefaults ==
    (/\ scanned.op = "_parse_parameters"
     /\ strip(source) # <<>>
     /\ \A i \in 1..Len(source) : source[i] # ","
     /\ Cardinality({i \in 1..Len(source) : source[i] = ":"}) = 1
     /\ Cardinality({i \in First(source, ":")..Len(source) :
                        source[i] = "="}) <= 1)
        => scanned.out = <<TypedParameter(source)>>

\* a line that is a whole docstring: it opens with a delimiter and closes
\* with the same delimiter
OneLineDocstring(line) ==
    \E q \in Quotes :
        /\ Len(strip(line)) >= 6
        /\ StartsAt(strip(line), 1, q)
        /\ StartsAt(strip(line), Len(strip(line)) - 2, q)

HasQuotes(line) == \E q \in Quotes : Contains(line, q)

\* the lines k of a text that are a class or def header outside any
\* docstring with line k + 1 a one-line docstring
DocumentedHeaders(lines) ==
    {k \in 1..(Len(lines) - 1) :
        /\ def_class_pattern(lines[k]).matched
        /\ \A j \in 1..k : ~HasQuotes(lines[j])
        /\ OneLineDocstring(lines[k + 1])}

\* C14: when a header line "class Foo:" or "def foo(...):" is immediately
\* followed by a docstring that opens and closes on one line,
\* extract_comments returns a DOCSTRING comment whose associated_element is
\* the declared name and whose line_number is the line of the docstring.
C14_DocstringAssociation ==
    scanned.op = "extract_comments" =>
        LET lines == Split(source, "\n")
        IN  \A k \in DocumentedHeaders(lines) :
                \E i \in 1..Len(scanned.out) :
                    /\ scanned.out[i].type = CommentType.DOCSTRING
                    /\ scanned.out[i].associated_element
                        = JStr(def_class_pattern(lines[k]).groups[2])
                    /\ scanned.out[i].line_number = k + 1

\* a docstring whose delimiters stand on lines of their own is returned
\* with the name of the header before it and the line of its opening
C14_DelimiterLinesAssociation ==
    scanned.op = "extract_comments" =>
        LET lines == Split(source, "\n")
        IN  \A k \in 1..(Len(lines) - 2) :
                (/\ def_class_pattern(lines[k]).matched
                 /\ \A j \in 1..k : ~HasQuotes(lines[j])
                 /\ lines[k + 1] = CommentLine.delimiter
                 /\ lines[k + 2] = CommentLine.delimiter)
                => \E i \in 1..Len(scanned.out) :
                    /\ scanned.out[i].type = CommentType.DOCSTRING
                    /\ scanned.out[i].associated_element
                        = JStr(def_class_pattern(lines[k]).groups[2])
                    /\ scanned.out[i].line_number = k + 1
                    /\ scanned.out[i].content
                        = strip(lines[k + 1] \o <<"\n">> \o lines[k + 2])

\* the comments other than docstrings in what extract_comments returned
InlineComments ==
    SelectSeq(scanned.out, LAMBDA c : c.type # CommentType.DOCSTRING)

\* the lines with a '#' in a text without docstring delimiters
CommentedLines(lines) ==
    IF \E k \in 1..Len(lines) : HasQuotes(lines[k]) THEN {}
    ELSE {k \in 1..Len(lines) : Contains(lines[k], <<"#">>)}

\* every line with a '#' outside docstrings gives one comment, in order
EveryCommentEmitted ==
    LET lines == Split(source, "\n")
    IN  \A k \in CommentedLines(lines) :
            \E i \in 1..Len(InlineComments) :
                /\ InlineComments[i].line_number = k
                /\ InlineComments[i].content
                    = strip(inline_comment_pattern(lines[k]).groups[1])
                /\ \A j \in 1..Len(InlineComments) :
                        InlineComments[j].line_number = k => j = i

Typed(c, type) ==
    /\ c.type = CommentType[type]
    /\ c.tags = IF type = "INLINE" THEN <<>> ELSE << Tag[type] >>

\* TODO or FIXME stands in text as a whole word, in any case of letters
HasTagWord(text) ==
    \E i \in 1..Len(text) : \E w \in {Tag.TODO, Tag.FIXME} :
        /\ StartsAt(upper(text), i, w)
        /\ WordBoundary(text, i)
        /\ WordBoundary(text, i + Len(w))

\* C15: an inline comment whose text contains TODO or FIXME as a
\* case-insensitive substring is typed and tagged accordingly, TODO if it
\* contains both; a comment that contains neither is INLINE without tags.
C15_SubstringClassification ==
    scanned.op = "extract_comments" =>
        /\ EveryCommentEmitted
        /\ \A i \in 1..Len(InlineComments) :
            LET c == InlineComments[i]
            IN  IF Contains(upper(c.content), Tag.TODO)
                THEN Typed(c, "TODO")
                ELSE IF Contains(upper(c.content), Tag.FIXME)
                THEN Typed(c, "FIXME")
                ELSE Typed(c, "INLINE")

\* C15, amended: a comment is tagged when TODO or FIXME stands in it as a
\* whole word, in any case of letters; it is then typed and tagged TODO if
\* its text contains TODO as a case-insensitive substring, else FIXME.  A
\* comment with neither as a whole word is INLINE without tags.
C15_WholeWordClassification ==
    scanned.op = "extract_comments" =>
        /\ EveryCommentEmitted
        /\ \A i \in 1..Len(InlineComments) :
            LET c == InlineComments[i]
            IN  IF ~HasTagWord(c.content)
                THEN Typed(c, "INLINE")
                ELSE IF Contains(upper(c.content), Tag.TODO)
                THEN Typed(c, "TODO")
                ELSE Typed(c, "FIXME")

\* comments of all three kinds have been returned for one text: one with
\* TODO inside a longer word, one with both words, one with fixme alone
C15_Witness ==
    /\ scanned.op = "extract_comments"
    /\ \E i, j, k \in 1..Len(InlineComments) :
        /\ InlineComments[i].content = CommentLine.mastodon
        /\ Typed(InlineComments[i], "INLINE")
        /\ InlineComments[j].content = CommentLine.both
        /\ Typed(InlineComments[j], "TODO")
        /\ InlineComments[k].content = CommentLine.fixme
        /\ Typed(InlineComments[k], "FIXME")

Indented(line) == StartsAt(line, 1, <<" ">>) \/ StartsAt(line, 1, <<"\t">>)

Declaration(line, keyword) ==
    IF keyword = "class" THEN class_pattern(strip(line))
    ELSE function_pattern(strip(line))

\* the names declared by the class or def lines of a text whose indentation
\* is among the wanted ones, in source order
DeclaredNames(lines, keyword, indentations) ==
    LET hits == SelectSeq(lines, LAMBDA line :
                    /\ Indented(line) \in indentations
                    /\ Declaration(line, keyword).matched)
    IN  [i \in 1..Len(hits) |-> Declaration(hits[i], keyword).groups[1]]

TopLevelClasses(content) ==
    DeclaredNames(splitlines(content), "class", {FALSE})

Names(infos) == [i \in 1..Len(infos) |-> infos[i].name]

\* C16: extract_classes returns one ClassInfo for each top-level class
\* header line of the text, in source order, none skipped: also not a class
\* whose header or decorator line is the first unindented non-blank line
\* after the body of the class before it.
C16_ClassListComplete ==
    scanned.op = "extract_classes" =>
        Names(scanned.out) = TopLevelClasses(source)

\* the classes returned are top-level classes of the text in source order,
\* the first of the text among them
C16_ClassListSound ==
    scanned.op = "extract_classes" =>
        LET all == TopLevelClasses(source)
            got == Names(scanned.out)
        IN  /\ \E pick \in [1..Len(got) -> 1..Len(all)] :
                /\ \A i \in 1..Len(got) : all[pick[i]] = got[i]
                /\ \A i, j \in 1..Len(got) : i < j => pick[i] < pick[j]
            /\ all # <<>> => (got # <<>> /\ got[1] = all[1])

TopLevelFunctions(content) ==
    DeclaredNames(splitlines(content), "def", {FALSE})

IndentedDefs(content) ==
    DeclaredNames(splitlines(content), "def", {TRUE})

\* C17: extract_functions returns a FunctionInfo only for the def lines
\* without leading indentation; a def indented in a class body is a method
\* of the class only, and the graph of the file gets no "Function: m" node
\* for a method m.
C17_TopLevelFunctionsOnly ==
    /\ scanned.op = "extract_functions" =>
            Names(scanned.out) = TopLevelFunctions(source)
    /\ pc = "processed" =>
            \A m \in Range(IndentedDefs(source)) :
                m \notin Range(TopLevelFunctions(source))
                    => ~has_node(graph, Prefix.Function \o m)

\* extract_functions returns every def line of the text, indented or not
C17_EveryDefReturned ==
    scanned.op = "extract_functions" =>
        Names(scanned.out)
            = DeclaredNames(splitlines(source), "def", BOOLEAN)

\* a call of _add_method_node for a class that has no node is being made
MethodOfMissingClass ==
    /\ ncalls' = ncalls + 1
    /\ call'.op = "method"
    /\ ~has_node(graph, call'.edge.source)

HasMethodEdges(G) ==
    {i \in 1..Len(G.edges) : G.edges[i].relation = Rel.HAS_METHOD}

\* C18: _add_method_node called for a class whose "Class: <name>" node is
\* not in the graph still upserts the Method node, adds no edge, creates no
\* Class node, logs a warning and goes on; so the source of every
\* HAS_METHOD edge is a node of the graph of type class.
C18_MissingParent ==
    /\ [][MethodOfMissingClass =>
            /\ has_node(graph', call'.id)
            /\ NodeSet(graph') = NodeSet(graph) \cup {call'.id}
            /\ ~has_node(graph', call'.edge.source)
            /\ graph'.edges = graph.edges
            /\ call'.warned
            /\ pc' = pc]_vars
    /\ [](\A i \in HasMethodEdges(graph) :
            /\ has_node(graph, graph.edges[i].source)
            /\ HasKey(NodeAttr(graph, graph.edges[i].source), Key.type)
            /\ Get(NodeAttr(graph, graph.edges[i].source), Key.type)
                = JStr(Type.class))

\* a method was added before its class and again after it: the first call
\* warned and left the method without edge, the second linked it
C18_LinkedLater ==
    /\ ncalls = 3
    /\ call.op = "method"
    /\ call.existed
    /\ call.edged
    /\ ~call.warned
    /\ HasMethodEdges(graph) # {}
    /\ has_node(graph, call.edge.source)

\* the call for the missing class has just been made
C18_Witness ==
    /\ call.op = "method"
    /\ call.warned
    /\ has_node(graph, call.id)
    /\ ~has_node(graph, call.edge.source)
    /\ HasMethodEdges(graph) = {}

\* the counters of self.stats, and self.files_processed beside them
CounterValue(st, k) ==
    IF k = "total_annotations" THEN Cardinality(st[k]) ELSE st[k]

ChangedCounters == {k \in DOMAIN stats : stats'[k] # stats[k]}

IncrementedCounters ==
    {k \in DOMAIN stats :
        CounterValue(stats', k) = CounterValue(stats, k) + 1}

NewNodes == Len(graph'.nodes) - Len(graph.nodes)

NewEdges == Len(graph'.edges) - Len(graph.edges)

\* the counter that counts the nodes of a type
CounterOf(type) ==
    CASE type = Type.file -> "files_processed"
      [] type = Type.class -> "total_classes"
      [] type \in {Type.method, Type.function} -> "total_functions"
      [] type = Type.import -> "total_imports"
      [] type = Type.decorator -> "total_annotations"
      [] type = Type.comment -> "total_comments"
      [] type = Type.variable -> "total_variables"
      [] type = Type.localization -> "total_localizations"

RaisedIn(f) == call'.op = "error" /\ call'.id = FileNode(f) /\ call' # call

\* the files of the walk so far on which open() or read() raised
UnreadableVisited == {f \in Range(order) : Raises(dir[f])}

\* C20: when reading or processing a file raises, files_with_errors goes up
\* by exactly one for that file, the analysis goes on (the exception does
\* not leave _process_python_file), every file that follows in the walk is
\* still visited and, when readable, gets its file node; the run always
\* reaches the end of _process_codebase.
C20_GracefulDegradation ==
    /\ [][\A f \in PyFiles : RaisedIn(f) =>
            /\ stats'.files_with_errors = stats.files_with_errors + 1
            /\ pc' = "analyze"
            /\ todo' = <<>>
            /\ pending' \subseteq pending]_vars
    /\ [](/\ stats.files_with_errors >= Cardinality(UnreadableVisited)
          /\ stats.files_with_errors <= Len(order)
          /\ stats.files_processed = Len(order)
          /\ \A f \in Range(order) :
                has_node(graph, FileNode(f)) <=> ~Raises(dir[f]))
    /\ [](pc # "analyze" => Range(order) = PyFiles)
    /\ <>(pc # "analyze")

\* the first file of the walk could not be read, the second one was read
\* and processed after it, and the graph was saved
C20_Witness ==
    /\ pc = "saved"
    /\ Len(order) = 2
    /\ Raises(dir[order[1]])
    /\ ~Raises(dir[order[2]])
    /\ stats.files_with_errors = 1
    /\ stats.files_processed = 2
    /\ ~has_node(graph, FileNode(order[1]))
    /\ has_node(graph, FileNode(order[2]))
    /\ stats.total_classes > 0

\* processing the first file raised after its first add operation, and the
\* second file was processed to its end
C20_ProcessingRaised ==
    /\ pc = "saved"
    /\ \A f \in PyFiles : ~Raises(dir[f])
    /\ stats.files_with_errors = 1
    /\ \A f \in PyFiles : has_node(graph, FileNode(f))

\* no file has been scanned, no node and no edge inserted
NothingProcessed ==
    /\ order = <<>>
    /\ analyzed_files = {}
    /\ graph = EmptyGraph
    /\ stats = InitStats

\* C21: when the input directory does not exist or the output path cannot
\* be written, the run aborts before any file is scanned and before any
\* node or edge is inserted.
C21_FatalPreconditions ==
    (~cli.directory \/ cli.output # "writable") =>
        /\ NothingProcessed
        /\ pc \in {"main", "Error"}

\* C21, what holds: a missing directory, and a compression directory that
\* cannot be made, end the run before anything is processed; with an
\* output file that cannot be opened the whole analysis is made, and the
\* compression pass never runs on a file of this run.
C21_AbortBeforeAnalysis ==
    /\ (~cli.directory \/ cli.output = "no_directory") =>
            /\ NothingProcessed
            /\ pc \in {"main", "Error"}
    /\ (/\ cli.directory
        /\ cli.output = "read_only"
        /\ pc \in {"poll", "saved", "Error"}) =>
            /\ Range(order) = PyFiles
            /\ json_file \in {NoFile, EarlierFile}

\* the output file could not be opened, and both files were analysed before
\* the run ended with an error
C21_AnalysedThenFailed ==
    /\ cli.directory
    /\ cli.output = "read_only"
    /\ pc = "Error"
    /\ cli.checks = PollChecks
    /\ Len(graph.nodes) > 2
    /\ stats.files_processed = 2

\* the compression pass has begun: compression.py has built its codebook
Compressing == pc \in {"abbreviated", "done", "KeyError"}

\* C22: the compression pass starts only after the last upsert of
\* analyze_codebase and after save_graph has returned, no upsert happens
\* once the codebook is being built, and so the codebook is built from the
\* final graph.
C22_CompressionAfterUpserts ==
    /\ [][(pc' \in {"abbreviated", "done", "KeyError"}) =>
            /\ graph' = graph
            /\ stats' = stats
            /\ pending = {}
            /\ todo = <<>>
            /\ pc \in {"saved", "abbreviated"}]_vars
    /\ [](Compressing =>
            /\ json_file.graph = node_link_data(graph)
            /\ abbreviations = generate_abbreviations(json_file))

\* C22, what holds: the ordering, and a codebook built from the file found
\* at the output path, which is the final graph when save_graph wrote it.
C22_UpsertsBeforeCompression ==
    /\ [][(pc' \in {"abbreviated", "done", "KeyError"}) =>
            /\ graph' = graph
            /\ stats' = stats
            /\ pending = {}
            /\ todo = <<>>
            /\ pc \in {"saved", "abbreviated"}]_vars
    /\ [](Compressing =>
            /\ abbreviations = generate_abbreviations(json_file)
            /\ cli.output = "writable" =>
                    json_file.graph = node_link_data(graph))

\* the codebook was built from the file of an earlier run: save_graph could
\* not open the output file, and the file found there is not the graph
C22_CodebookOfEarlierFile ==
    /\ Compressing
    /\ cli.output = "read_only"
    /\ json_file = EarlierFile
    /\ Len(graph.nodes) > 0
    /\ json_file.graph # node_link_data(graph)

\* the stages of the run, in the order of the __main__ block
Stage ==
    [main |-> 0, analyze |-> 1, poll |-> 2, saved |-> 3, abbreviated |-> 4,
     done |-> 5, KeyError |-> 5, Error |-> 5]

\* a step that looks for the output file
Checks == cli'.checks = cli.checks + 1

\* C23: after save_graph the run looks for the output file at most 10
\* times; it goes on to the compression pass as soon as a look finds the
\* file; when the 10th look does not find it the run raises and the
\* compression pass is never invoked; and no other operation is retried:
\* the run never goes back to an earlier stage, no file is visited twice
\* and no add operation is repeated.
C23_BoundedPolling ==
    /\ [](cli.checks <= 10)
    /\ [][Checks =>
            /\ pc = "poll"
            /\ json_file.exists => pc' = "saved"
            /\ (~json_file.exists /\ cli'.checks < 10) => pc' = "poll"
            /\ (~json_file.exists /\ cli'.checks = 10) => pc' = "Error"]_vars
    /\ [][pc = "Error" => UNCHANGED vars]_vars
    /\ [](pc = "Error" => abbreviations = <<>> /\ compressed = <<>>)
    /\ [][/\ Stage[pc'] >= Stage[pc]
          /\ pc' = pc => \/ pc = "poll"
                         \/ /\ pc = "analyze"
                            /\ \/ /\ pending' \subseteq pending
                                  /\ pending' # pending
                               \/ todo' = Tail(todo)]_vars
    /\ [](Injective(order))

\* the file was not there at the 10th look: the run ended with an error and
\* without a codebook, after an analysis that inserted nodes
C23_GaveUp ==
    /\ pc = "Error"
    /\ cli.checks = 10
    /\ ~json_file.exists
    /\ abbreviations = <<>>
    /\ Len(graph.nodes) > 0

\* the file appeared while the run waited: the compression pass ran after
\* more than one look and fewer than ten
C23_FoundLater ==
    /\ pc = "done"
    /\ cli.checks > 1
    /\ cli.checks < 10

\* a pass of the loop of extract_comments, the line it reads, and the loop
\* variables before and after it
LinePass == scanned.op = "for" /\ scanned'.op = "for"

LineRead == Split(source, "\n")[scanned.out.idx + 1]

\* the first three non-blank characters of a line
LeadingQuote(line) ==
    IF Len(lstrip(line)) < 3 THEN <<>> ELSE SubSeq(lstrip(line), 1, 3)

OpensDocstring(line) == LeadingQuote(line) \in Quotes

DocstringOpen == scanned.out.v.in_docstring

DocstringOpenAfter == scanned'.out.v.in_docstring

\* C24: extract_comments tracks one open docstring.  It is opened only by
\* a line whose first non-blank characters are a triple quote, read while
\* none is open; it is closed only by a later line that contains the
\* delimiter that opened it; each close emits exactly one DOCSTRING entry
\* whose line_number is the opening line; and no other entry is emitted
\* for the opening line or for a line read while the docstring is open.
C24_DocstringStateMachine ==
    [][LinePass =>
        LET v == scanned.out.v
            w == scanned'.out.v
        IN  /\ (~DocstringOpen /\ DocstringOpenAfter)
                    <=> (~DocstringOpen /\ OpensDocstring(LineRead))
            /\ (~DocstringOpen /\ DocstringOpenAfter) =>
                    /\ w.docstring_delimiter = LeadingQuote(LineRead)
                    /\ w.docstring_start_line = scanned.out.idx + 1
            /\ (DocstringOpen /\ DocstringOpenAfter) =>
                    /\ w.docstring_delimiter = v.docstring_delimiter
                    /\ w.docstring_start_line = v.docstring_start_line
            /\ (DocstringOpen /\ ~DocstringOpenAfter)
                    <=> (/\ DocstringOpen
                         /\ Contains(LineRead, v.docstring_delimiter))
            /\ IF DocstringOpen /\ ~DocstringOpenAfter
               THEN /\ Len(w.comments) = Len(v.comments) + 1
                    /\ SubSeq(w.comments, 1, Len(v.comments)) = v.comments
                    /\ w.comments[Len(w.comments)].type
                            = CommentType.DOCSTRING
                    /\ w.comments[Len(w.comments)].line_number
                            = v.docstring_start_line
                    /\ v.docstring_start_line <= scanned.out.idx
               ELSE (DocstringOpen \/ DocstringOpenAfter) =>
                        w.comments = v.comments]_vars

\* a docstring opened by """ on line 1 was left open by ''' on line 2 and
\* closed by a line that contains """ on line 3
C24_Witness ==
    /\ scanned.op = "for"
    /\ source = Join(<<"\n">>, << DocstringLine.double, DocstringLine.single,
                                 DocstringLine.inner >>)
    /\ scanned.out.idx = 3
    /\ ~DocstringOpen
    /\ Len(scanned.out.v.comments) = 1
    /\ scanned.out.v.comments[1].type = CommentType.DOCSTRING
    /\ scanned.out.v.comments[1].line_number = 1

IsDecoratorLine(line) == StartsAt(strip(line), 1, <<"@">>)

\* where the run of decorator lines directly before line k begins
RunStart(lines, k) ==
    CHOOSE j \in 1..k :
        /\ \A i \in j..(k - 1) : IsDecoratorLine(lines[i])
        /\ j = 1 \/ ~IsDecoratorLine(lines[j - 1])

\* the decorators written directly before line k, in source order
DecoratorRun(lines, k) ==
    LET run == SelectSeq(SubSeq(lines, RunStart(lines, k), k - 1),
                         LAMBDA line : decorator_pattern(strip(line)).matched)
    IN  [i \in 1..Len(run) |-> decorator_pattern(strip(run[i])).groups[1]]

\* every class or def header of a text with the decorators before it
DecoratedHeaders(lines, keyword) ==
    LET at == SelectSeq([k \in 1..Len(lines) |-> k],
                        LAMBDA k : Declaration(lines[k], keyword).matched)
    IN  [i \in 1..Len(at) |->
            [name |-> Declaration(lines[at[i]], keyword).groups[1],
             decorators |-> DecoratorRun(lines, at[i])]]

Decorated(infos) ==
    [i \in 1..Len(infos) |->
        [name |-> infos[i].name, decorators |-> infos[i].decorators]]

\* got is all with some of its elements left out
IsSubSeq(got, all) ==
    \E pick \in [1..Len(got) -> 1..Len(all)] :
        /\ \A i \in 1..Len(got) : all[pick[i]] = got[i]
        /\ \A i, j \in 1..Len(got) : i < j => pick[i] < pick[j]

MethodsOf(classes) ==
    Flatten([i \in 1..Len(classes) |-> classes[i].methods])

\* C25: every declaration that extract_classes, _extract_methods and
\* extract_functions return carries exactly the decorators of the run of
\* '@' lines directly before its header, in source order; decorators
\* followed by a line that is no header are attached to nothing.
C25_DecoratorAccumulation ==
    /\ scanned.op = "extract_functions" =>
            Decorated(scanned.out)
                = DecoratedHeaders(splitlines(source), "def")
    /\ scanned.op = "extract_classes" =>
            /\ IsSubSeq(Decorated(scanned.out),
                        DecoratedHeaders(splitlines(source), "class"))
            /\ IsSubSeq(Decorated(MethodsOf(scanned.out)),
                        DecoratedHeaders(splitlines(source), "def"))

\* C25, what holds: it holds of functions and methods, and of every class
\* but one whose run of decorators begins on the first unindented
\* non-blank line after the body of the class before it.
C25_DecoratorsOfFunctionsAndMethods ==
    /\ scanned.op = "extract_functions" =>
            Decorated(scanned.out)
                = DecoratedHeaders(splitlines(source), "def")
    /\ scanned.op = "extract_classes" =>
            /\ IsSubSeq(Decorated(MethodsOf(scanned.out)),
                        DecoratedHeaders(splitlines(source), "def"))
            /\ IsSubSeq(Names(scanned.out), TopLevelClasses(source))
            /\ scanned.out # <<>> =>
                    Decorated(scanned.out)[1]
                        = DecoratedHeaders(splitlines(source), "class")[1]

\* a class and a function each got two decorators in source order
C25_TwoDecorators ==
    /\ scanned.op \in {"extract_classes", "extract_functions"}
    /\ Len(scanned.out) = 1
    /\ scanned.out[1].decorators = << <<"d">>, <<"e">> >>

\* the lines directly after line k that are blank or begin with a space or
\* a tab, up to the first line that is neither
BodyRun(lines, k) ==
    LET stop == CHOOSE j \in k..Len(lines) :
                    /\ \A i \in (k + 1)..j :
                            strip(lines[i]) = <<>> \/ Indented(lines[i])
                    /\ j = Len(lines)
                        \/ ~(strip(lines[j + 1]) = <<>>
                                \/ Indented(lines[j + 1]))
    IN  SubSeq(lines, k + 1, stop)

\* every class header of a text with the def headers of the run after it
ClassesWithBodies(lines) ==
    LET at == SelectSeq([k \in 1..Len(lines) |-> k],
                        LAMBDA k : Declaration(lines[k], "class").matched)
    IN  [i \in 1..Len(at) |->
            [name |-> Declaration(lines[at[i]], "class").groups[1],
             methods |-> DecoratedHeaders(BodyRun(lines, at[i]), "def")]]

WithBodies(classes) ==
    [i \in 1..Len(classes) |->
        [name |-> classes[i].name,
         methods |-> Decorated(classes[i].methods)]]

\* C26: the methods of every ClassInfo that extract_classes returns are, in
\* source order, exactly the def headers in the maximal run of blank or
\* indented lines directly after the header of the class; a def on or after
\* the first unindented non-blank line is not among them.
C26_ClassBodyScoping ==
    scanned.op = "extract_classes" =>
        /\ IsSubSeq(WithBodies(scanned.out),
                    ClassesWithBodies(splitlines(source)))
        /\ scanned.out # <<>> =>
                WithBodies(scanned.out)[1]
                    = ClassesWithBodies(splitlines(source))[1]

\* a class got the method of its body and not the def after the body
C26_Witness ==
    /\ scanned.op = "extract_classes"
    /\ splitlines(source)
        = << CodeLine.class_A, CodeLine.method, CodeLine.function >>
    /\ Len(scanned.out) = 1
    /\ Names(scanned.out[1].methods) = << <<"m">> >>

\* a blank line in the body did not end it
C26_BlankLineInBody ==
    /\ scanned.op = "extract_classes"
    /\ splitlines(source)
        = << CodeLine.class_A, CodeLine.blank, CodeLine.method >>
    /\ Len(scanned.out) = 1
    /\ Names(scanned.out[1].methods) = << <<"m">> >>

SplitLines == {CodeLine.split_def, CodeLine.split_rest}

\* the text with the two lines of every split signature replaced by a line
\* of a body that declares nothing
WithoutSplitSignatures(content) ==
    LET lines == splitlines(content)
    IN  Join(<<"\n">>,
             [i \in 1..Len(lines) |->
                IF lines[i] \in SplitLines THEN CodeLine.cont
                ELSE lines[i]])

HasSplitSignature(content) ==
    \E i \in 1..(Len(splitlines(content)) - 1) :
        /\ splitlines(content)[i] = CodeLine.split_def
        /\ splitlines(content)[i + 1] = CodeLine.split_rest

\* C27: a def header whose parameter list is split across lines gives no
\* FunctionInfo from extract_functions or _extract_methods and no error:
\* both return what they return for the text without the signature.
C27_SplitSignatureNotReassembled ==
    /\ scanned.op = "extract_functions" =>
            /\ <<"g">> \notin Range(Names(scanned.out))
            /\ scanned.out
                = extract_functions(WithoutSplitSignatures(source))
    /\ scanned.op = "extract_classes" =>
            /\ <<"g">> \notin Range(Names(MethodsOf(scanned.out)))
            /\ scanned.out
                = extract_classes(WithoutSplitSignatures(source))

\* a class whose body is a split signature was scanned and has no method
C27_Witness ==
    /\ scanned.op = "extract_classes"
    /\ splitlines(source)
        = << CodeLine.class_A, CodeLine.split_def, CodeLine.split_rest >>
    /\ Len(scanned.out) = 1
    /\ scanned.out[1].methods = <<>>

\* a split signature before a function was scanned by extract_functions
C27_SplitThenFunction ==
    /\ scanned.op = "extract_functions"
    /\ splitlines(source)
        = << CodeLine.split_def, CodeLine.split_rest, CodeLine.function >>
    /\ Names(scanned.out) = << <<"f">> >>

Returned == pc = "returned"

Raised == pc = "IndexError"

\* the index of a loop does not go back, and a pass of the loop body that
\* ends moves it on
IndexIncreases ==
    /\ scanned.op = "while" /\ scanned'.op = "while" =>
            /\ scanned'.out.i >= scanned.out.i
            /\ pc = "match" => scanned'.out.i > scanned.out.i
    /\ scanned.op = "for" /\ scanned'.op = "for" =>
            /\ scanned'.out.idx >= scanned.out.idx
            /\ pc = "body" => scanned'.out.idx > scanned.out.idx

\* the line a step reads is a line of the text
ReadsWithinText ==
    /\ pc' = "decorators" => scanned'.out.i < Len(splitlines(source))
    /\ pc' = "body" => scanned'.out.idx < Len(Split(source, "\n"))

\* C28: on every text extract_comments, extract_classes, extract_functions
\* and _extract_methods return without raising: the line index grows with
\* every pass of the loop and no line past the last one is read.
C28_ScannerTotality ==
    /\ []~Raised
    /\ [][IndexIncreases /\ ReadsWithinText]_vars
    /\ <>Returned

\* a scanner returned from a text that ends in a decorator line
C28_Witness ==
    /\ scanned.op \in Scanners
    /\ source = Join(<<"\n">>, << CodeLine.class_A, CodeLine.decorator >>)

\* extract_comments returned from a text with an unterminated docstring
C28_UnterminatedDocstring ==
    /\ scanned.op = "extract_comments"
    /\ source = Join(<<"\n">>, << DocstringLine.double,
                                  DocstringLine.plain >>)
    /\ scanned.out = <<>>

\* the loops return what the scanners return
C28_LoopsReturnScannerResults ==
    /\ scanned.op = "extract_classes" =>
            scanned.out = extract_classes(source)
    /\ scanned.op = "_extract_methods" =>
            scanned.out = _extract_methods(source)
    /\ scanned.op = "extract_functions" =>
            scanned.out = extract_functions(source)
    /\ scanned.op = "extract_comments" =>
            scanned.out = extract_comments(source)

\* the values of the type attribute that the add operations write
NodeTypes == {Type[k] : k \in DOMAIN Type}

HasNodeType(G, i) ==
    /\ HasKey(G.attr[i], Key.type)
    /\ Get(G.attr[i], Key.type).t = "str"
    /\ Get(G.attr[i], Key.type).s \in NodeTypes

\* C29: in every state of the assembly pass every node of the graph has a
\* type attribute, and its value is one of the node types: also the File
\* node from which _process_localization_file draws its CONTAINS edge.
C29_EveryNodeTyped ==
    \A i \in 1..Len(graph.nodes) : HasNodeType(graph, i)

\* the nodes without a type are the File nodes of the message catalogues;
\* every other node is typed
C29_UntypedAreCatalogueFiles ==
    \A i \in 1..Len(graph.nodes) :
        \/ HasNodeType(graph, i)
        \/ /\ graph.nodes[i] = FileNode(x_po)
           /\ graph.attr[i] = <<>>
           /\ x_po \in Range(order)

\* the pass has worked on the catalogue and on a Python file with a class
C29_CatalogueAndClass ==
    /\ x_po \in Range(order)
    /\ has_node(graph, Prefix.i18n \o x_po)
    /\ \E i \in 1..Len(graph.nodes) :
            /\ HasNodeType(graph, i)
            /\ Get(graph.attr[i], Key.type).s = Type.class

Method_m == Prefix.Method \o <<"m">>

\* the method m that the pass reaches first: the first method of the first
\* class of the first file of the walk
FirstInserted == dir[order[1]].classes[1].methods[1]

\* the files that the pass is through with, and their classes
DoneFiles ==
    {order[k] : k \in {j \in 1..Len(order) : j < Len(order) \/ todo = <<>>}}

ClassesSeen ==
    UNION {{dir[f].classes[i].name : i \in 1..Len(dir[f].classes)} :
           f \in DoneFiles}

\* C30: classes that each have a method named m give one node 'Method: m'
\* with the attributes of the method inserted first and a HAS_METHOD edge
\* from the node of each of the classes.
C30_MethodIdentity ==
    /\ Cardinality({i \in 1..Len(graph.nodes) :
                        graph.nodes[i] = Method_m}) <= 1
    /\ has_node(graph, Method_m) =>
            NodeAttr(graph, Method_m)
                = FunctionAttrs(Type.method, Method_m, FirstInserted)
    /\ \A c \in ClassesSeen :
            /\ has_node(graph, Method_m)
            /\ has_edge(graph, Prefix.Class \o c, Method_m)
            /\ Relation(graph, Prefix.Class \o c, Method_m) = Rel.HAS_METHOD

\* the pass is through with A in one file and B in the other, B first
C30_Witness ==
    /\ Len(order) = 2
    /\ DoneFiles = PyFiles
    /\ dir[order[1]] = KB
    /\ dir[order[2]] = KA
    /\ has_edge(graph, Prefix.Class \o <<"A">>, Method_m)
    /\ has_edge(graph, Prefix.Class \o <<"B">>, Method_m)

\* the pass is through with a file that holds both classes
C30_SameFile ==
    /\ DoneFiles = PyFiles
    /\ \A f \in PyFiles : dir[f] = KBA
    /\ has_edge(graph, Prefix.Class \o <<"A">>, Method_m)
    /\ has_edge(graph, Prefix.Class \o <<"B">>, Method_m)

\* C31: both endpoints of every edge of the graph are nodes of the graph,
\* an edge to or from an absent id having added it, and every link of the
\* saved JSON names ids of its nodes list.
C31_ReferentialIntegrity ==
    /\ \A i \in 1..Len(graph.edges) :
            /\ has_node(graph, graph.edges[i].source)
            /\ has_node(graph, graph.edges[i].target)
    /\ json_file.exists =>
            /\ Len(json_file.graph.links) = Len(graph.edges)
            /\ \A i \in 1..Len(json_file.graph.links) :
                    /\ json_file.graph.links[i].source
                            \in NodeIds(json_file.graph.nodes)
                    /\ json_file.graph.links[i].target
                            \in NodeIds(json_file.graph.nodes)

\* the graph was saved with the link from a File node that only the edge
\* of _process_localization_file added
C31_Witness ==
    /\ json_file.exists
    /\ \E i \in 1..Len(json_file.graph.links) :
            /\ json_file.graph.links[i].source = FileNode(x_po)
            /\ json_file.graph.links[i].relation = Rel.CONTAINS
    /\ NodeAttr(graph, FileNode(x_po)) = <<>>

\* the step is the one in which _process_python_file is called on file f
Visits(f) == order' = Append(order, f)

\* every node of G is a node of H and every linked pair of G is one of H
GraphWithin(G, H) ==
    /\ \A i \in 1..Len(G.nodes) : has_node(H, G.nodes[i])
    /\ \A i \in 1..Len(G.edges) :
            has_edge(H, G.edges[i].source, G.edges[i].target)

\* the calls of _process_python_file so far on files that cannot be read
UnreadableVisits == {i \in 1..Len(order) : Raises(dir[order[i]])}

ReadableFiles == {f \in PyFiles : ~Raises(dir[f])}

\* the edge that the i-th add operation for file f inserts is in the graph
FactPresent(f, i) ==
    LET c == _process_file_contents(hashseed, FileNode(f), dir[f])[i]
    IN  has_edge(graph, CallSource(c), CallId(hashseed, c))

NumFacts(f) == Len(_process_file_contents(hashseed, FileNode(f), dir[f]))

\* C32: when _process_file_contents raises for a file, the graph is left as
\* it is (the File node and what was inserted stay, no node and no edge is
\* ever taken out), the add operations that remained are not made, the
\* error is counted once, the file is in analyzed_files, and a later call of
\* _process_python_file on it changes nothing: it is not processed again and
\* its error is not counted again.
C32_NoRollback ==
    /\ [][\A f \in ReadableFiles : RaisedIn(f) =>
            /\ graph' = graph
            /\ has_node(graph', FileNode(f))
            /\ todo # <<>>
            /\ todo' = <<>>
            /\ stats' = [stats EXCEPT !.files_with_errors = @ + 1]
            /\ f \in analyzed_files']_vars
    /\ [][GraphWithin(graph, graph')
            /\ analyzed_files \subseteq analyzed_files']_vars
    /\ [][\A f \in analyzed_files : Visits(f) =>
            /\ graph' = graph
            /\ stats' = stats
            /\ todo' = <<>>]_vars
    /\ [](stats.files_with_errors
            <= Cardinality(ReadableFiles) + Cardinality(UnreadableVisits))

\* analyze_codebase was called twice and the graph saved: the processing of
\* a file raised after its first add operation and before its last one, the
\* file was visited again, and the graph has the first fact and not the last
C32_Witness ==
    /\ pc = "saved"
    /\ ncalls = 1
    /\ Len(order) = 4
    /\ ReadableFiles = PyFiles
    /\ stats.files_with_errors = 1
    /\ \E f \in PyFiles :
            /\ f \in analyzed_files
            /\ has_node(graph, FileNode(f))
            /\ FactPresent(f, 1)
            /\ ~FactPresent(f, NumFacts(f))

\* the add operation of todo for a method has the one for its class before it
ClassOpBefore(i) ==
    \E j \in 1..(i - 1) : todo[j].op = "class" /\ todo[j].b = todo[i].a

\* the methods the scanner returned for the files processed to their end
MethodsOfClass(class_info) ==
    {[class |-> class_info.name, method |-> class_info.methods[j].name] :
        j \in 1..Len(class_info.methods)}

ExtractedMethods ==
    UNION {UNION {MethodsOfClass(dir[f].classes[i]) :
                    i \in 1..Len(dir[f].classes)} : f \in DoneFiles}

\* C33: in the per-file pass the upsert of a class comes before the upserts
\* of its methods: every _add_method_node still to be made has its class
\* node in the graph or the _add_class_node of its class before it, the one
\* just made found the class node (no warning, the HAS_METHOD edge added),
\* and every method of a processed file has a HAS_METHOD edge from its class.
C33_ClassBeforeMethod ==
    /\ \A i \in 1..Len(todo) : todo[i].op = "method" =>
            \/ has_node(graph, Prefix.Class \o todo[i].a)
            \/ ClassOpBefore(i)
    /\ call.op = "method" =>
            /\ ~call.warned
            /\ call.edged
            /\ Relation(graph, call.edge.source, call.id) = Rel.HAS_METHOD
    /\ \A m \in ExtractedMethods :
            /\ has_node(graph, Prefix.Class \o m.class)
            /\ has_node(graph, Prefix.Method \o m.method)
            /\ Relation(graph, Prefix.Class \o m.class,
                        Prefix.Method \o m.method) = Rel.HAS_METHOD

\* the first method of the first class of the run has just been added: its
\* class node was inserted by the step before the one that inserted it
C33_Witness ==
    /\ call.op = "method"
    /\ ~call.existed
    /\ Len(order) = 1
    /\ stats.total_classes = 1
    /\ HasMethodEdges(graph) # {}
    /\ todo # <<>>

\* the nodes of G whose type attribute is one of types
NodesOfType(G, types) ==
    {i \in 1..Len(G.nodes) :
        /\ HasKey(G.attr[i], Key.type)
        /\ Get(G.attr[i], Key.type) \in {JStr(t) : t \in types}}

CountersMatchNodes(G, st) ==
    /\ st.total_classes = Cardinality(NodesOfType(G, {Type.class}))
    /\ st.total_imports = Cardinality(NodesOfType(G, {Type.import}))
    /\ st.total_variables = Cardinality(NodesOfType(G, {Type.variable}))
    /\ st.total_comments = Cardinality(NodesOfType(G, {Type.comment}))
    /\ st.total_functions
            = Cardinality(NodesOfType(G, {Type.function, Type.method}))

\* C34: after every add operation total_classes, total_imports,
\* total_variables and total_comments are the numbers of nodes of type
\* class, import, variable and comment, and total_functions is the number
\* of nodes of type function or method; an add operation for an id that is
\* in the graph changes no counter.
C34_CountersTrackNodes ==
    /\ [](CountersMatchNodes(graph, stats))
    /\ [][(call'.op \in AddOps /\ todo' # todo /\ has_node(graph, call'.id))
            => stats' = stats]_vars

\* both files have been processed: the function f of the second file was in
\* the graph, its method m too, and total_functions counts methods and
\* functions, each once
C34_Witness ==
    /\ Len(order) = 2
    /\ todo = <<>>
    /\ dir[order[1]] = K1
    /\ dir[order[2]] = K1
    /\ stats.total_functions = 3
    /\ Cardinality(NodesOfType(graph, {Type.method})) = 1
    /\ Cardinality(NodesOfType(graph, {Type.function})) = 2
    /\ stats.total_classes = 1
    /\ stats.total_imports = 1
    /\ stats.total_variables = 1
    /\ stats.total_comments >= 1

SourceLines == Split(source, "\n")

\* no comment of the list is reported at line start or at a line after it
NoEntryFrom(comments, start) ==
    \A i \in 1..Len(comments) : comments[i].line_number < start

\* C35: while a docstring is open, the line that opened it and every line
\* read after it have given no entry; a line read while it is open that
\* does not contain its delimiter leaves it open and gives none; the line
\* that opens it gives none and leaves it open, whatever follows the triple
\* quote on that line; and extract_comments returns the list as the loop
\* left it.  So a docstring that no later line closes is reported by no
\* entry, and neither is any line from its opening line to the end.
C35_UnterminatedDocstring ==
    /\ []((scanned.op = "for" /\ DocstringOpen) =>
            LET v == scanned.out.v
            IN  /\ v.docstring_start_line \in 1..scanned.out.idx
                /\ OpensDocstring(SourceLines[v.docstring_start_line])
                /\ v.docstring_delimiter
                        = LeadingQuote(SourceLines[v.docstring_start_line])
                /\ \A k \in (v.docstring_start_line + 1)..scanned.out.idx :
                        ~Contains(SourceLines[k], v.docstring_delimiter)
                /\ NoEntryFrom(v.comments, v.docstring_start_line))
    /\ [][LinePass =>
            LET v == scanned.out.v
                w == scanned'.out.v
            IN  /\ (DocstringOpen
                        /\ ~Contains(LineRead, v.docstring_delimiter)) =>
                        /\ DocstringOpenAfter
                        /\ w.docstring_start_line = v.docstring_start_line
                        /\ w.docstring_delimiter = v.docstring_delimiter
                        /\ w.comments = v.comments
                /\ (~DocstringOpen /\ OpensDocstring(LineRead)) =>
                        /\ DocstringOpenAfter
                        /\ w.docstring_start_line = scanned.out.idx + 1
                        /\ w.comments = v.comments]_vars
    /\ [][(scanned.op = "for" /\ scanned'.op = "extract_comments") =>
            /\ scanned.out.idx = Len(SourceLines)
            /\ scanned'.out = scanned.out.v.comments]_vars

\* extract_comments has returned for a comment line, a line that opens and
\* closes a docstring, and a line with a TODO comment: the one entry is the
\* comment of line 1
C35_Witness ==
    /\ scanned.op = "extract_comments"
    /\ source = Join(<<"\n">>, << DocstringLine.plain, DocstringLine.one_line,
                                 DocstringLine.todo >>)
    /\ Len(scanned.out) = 1
    /\ scanned.out[1].line_number = 1
    /\ scanned.out[1].type = CommentType.INLINE

\* the step in which save_graph is called and returns
SaveReturns == pc = "analyze" /\ pc' # "analyze"

StrictlyIncreasing(comments) ==
    \A i \in 1..(Len(comments) - 1) :
        comments[i].line_number < comments[i + 1].line_number

\* C37: the list that extract_comments builds and returns has strictly
\* increasing line numbers, all of them lines of the text that were read, so
\* no line has two entries; a docstring is reported at the line that opened
\* it, and no entry of the list lies between that line and the line that
\* closed it.
C37_OrderedCommentOutput ==
    /\ [](scanned.op = "for" =>
            LET v == scanned.out.v
            IN  /\ StrictlyIncreasing(v.comments)
                /\ \A i \in 1..Len(v.comments) :
                        v.comments[i].line_number \in 1..scanned.out.idx
                /\ DocstringOpen =>
                        NoEntryFrom(v.comments, v.docstring_start_line))
    /\ [][(LinePass /\ DocstringOpen /\ ~DocstringOpenAfter) =>
            LET v == scanned.out.v
                w == scanned'.out.v
            IN  /\ w.comments[Len(w.comments)].line_number
                        = v.docstring_start_line
                /\ \A i \in 1..Len(v.comments) :
                        w.comments[i].line_number
                            < v.docstring_start_line]_vars
    /\ [](scanned.op = "extract_comments" =>
            /\ StrictlyIncreasing(scanned.out)
            /\ \A i \in 1..Len(scanned.out) :
                    scanned.out[i].line_number \in 1..Len(SourceLines))

\* extract_comments has returned for a docstring of two lines followed by a
\* line with a comment: the docstring is reported at line 1, the comment at
\* line 3
C37_Witness ==
    /\ scanned.op = "extract_comments"
    /\ source = Join(<<"\n">>, << DocstringLine.double, DocstringLine.inner,
                                 DocstringLine.todo >>)
    /\ Len(scanned.out) = 2
    /\ scanned.out[1].type = CommentType.DOCSTRING
    /\ scanned.out[1].line_number = 1
    /\ scanned.out[2].line_number = 3

\* the place of the k-th entry of the codebook among the codebook lines,
\* when the lines are in the order of the surrogates as strings
CodebookPosition(k) ==
    1 + Cardinality({j \in 1..Len(abbreviations) :
            StrLess(abbreviations[j].abbr, abbreviations[k].abbr)})

EntryAt(p) ==
    abbreviations[CHOOSE k \in 1..Len(abbreviations) : CodebookPosition(k) = p]

\* the head of the compressed text: the instructions and the codebook lines
CodebookSection ==
    Join(<<"\n">>, <<Instructions>> \o
        [p \in 1..Len(abbreviations) |->
            <<"#", " ">> \o EntryAt(p).abbr \o <<":">> \o EntryAt(p).term])

\* C38: the compressed text begins with the instructions and then the
\* codebook lines in the order of their surrogates as strings.  With ten
\* terms or more the line of T10 comes before the line of T2 and the terms
\* of the lines are not in sorted order; with fewer than ten terms the
\* lines are in the order of the indices, which is the sorted order of the
\* terms.
C38_CodebookLineOrder ==
    pc = "done" =>
        LET n == Len(abbreviations)
        IN  /\ \A k \in 1..n : abbreviations[k].abbr = Surrogate(k)
            /\ Len(compressed) >= Len(CodebookSection)
            /\ SubSeq(compressed, 1, Len(CodebookSection)) = CodebookSection
            /\ n >= 10 =>
                    /\ CodebookPosition(10) = 2
                    /\ CodebookPosition(10) < CodebookPosition(2)
                    /\ \E p \in 1..(n - 1) :
                            StrLess(EntryAt(p + 1).term, EntryAt(p).term)
            /\ n < 10 =>
                    /\ \A k \in 1..n : CodebookPosition(k) = k
                    /\ \A p \in 1..(n - 1) :
                            StrLess(EntryAt(p).term, EntryAt(p + 1).term)

\* a graph with more than ten terms has been compressed: the second line of
\* its codebook is the one of T10
C38_Witness ==
    /\ pc = "done"
    /\ Len(abbreviations) > 10
    /\ EntryAt(2).abbr = <<"T", "1", "0">>
    /\ EntryAt(3).abbr = <<"T", "1", "1">>
    /\ compressed # <<>>

\* a graph with terms, and fewer than ten, has been compressed
C38_FewerThanTen ==
    /\ pc = "done"
    /\ Len(abbreviations) \in 1..9
    /\ compressed # <<>>

===========================================================================
